---- MODULE Spec2Model ----
(***************************************************************************)
(* Model of the channel runtime of routerlicious/packages/loader           *)
(* (runtime.ts): the channel map, the deferred channel promises, the       *)
(* pending-attach set, connection-state handling, attach processing,       *)
(* snapshots and stop().                                                   *)
(*                                                                         *)
(* Channel objects and delta connections are JavaScript objects that are   *)
(* shared by reference, so they live in two heaps (objects, connections)   *)
(* and are referred to by their index; index 0 is null. A connection is    *)
(* allocated in the slot of the channel object it is created for: the      *)
(* connection that object held before, if any, is unreachable from then on.*)
(***************************************************************************)
EXTENDS Integers, Sequences, FiniteSets, TLC

\* ------------------------------------------------------------------ bounds
Ids == {"c1", "c2"}
Types == {"TypeA", "TypeB"}

\* the (id, type) pairs createChannel is called with, and those of remote attach messages
Creations == {<< "c1", "TypeA" >>, << "c2", "TypeB" >>}
\* creations of a type the chaincode has no module for
UnresolvedCreations == {<< "c1", "TypeC" >>}
\* the orders in which the channel map can hold the channels
ChannelOrders == {<< "c1", "c2" >>, << "c2", "c1" >>}
RemoteAttaches == {<< "c1", "TypeB" >>, << "c2", "TypeA" >>}
RemoteSnapshots == {1}

SnapshotIds == {"c1", "c2"}
MinimumSequenceNumbers == {1}
UpdateSequenceNumbers == {0}
\* the values updateMinSequenceNumber is called with as the stream advances
AdvancingSequenceNumbers == {1, 2}
\* the backlogs LoadFromSnapshot is given for a channel (tardisMessages): document
\* messages in stream order
Backlogs ==
    {<< >>,
     << [sequenceNumber |-> 1, contents |-> "x"], [sequenceNumber |-> 3, contents |-> "y"] >>}
\* the minimumSequenceNumber LoadFromSnapshot is given
LoadMinimumSequenceNumber == 1
Contents == {0, 1}

MaxObjects == 2
MaxInflight == 2
\* bound on the quorum events the ordering layer sequences
MaxLog == 6
\* bound on the leader elections registerTasks starts
MaxRegistrations == 2
\* bound on the "/.." segments tryFindDependencyPath appends to its testPath
MaxUps == 4

Null == 0

VARIABLES
    channels,          \* Map<string, IChannelState>: id -> entry (NoEntry when absent)
    channelsDeferred,  \* Map<string, Deferred<IChannel>>: id -> deferred (NoDeferred when absent)
    closed,            \* the closed flag
    pendingAttach,     \* Map<string, IAttachMessage>, in insertion order
    connectionState,   \* "Disconnected" | "Connected"
    objects,           \* heap of channel objects (IChannel)
    connections,       \* heap of ChannelDeltaConnection objects
    inflight,          \* submitted messages the ordering layer still has to echo back
    context,           \* the IChannelState prepareAttach returned, until processAttach takes it
    loadPc,            \* LoadFromSnapshot: id -> position of its loadSnapshotChannel
    started,           \* runtime.start() has run and LoadFromSnapshot returned the runtime
    storageReads,      \* number of reads of the external IDocumentStorageService
    stopResult,        \* what stop() returned
    last,              \* the last call made on the runtime and how it ended
    clientId,          \* the client id the runtime holds
    clientType,        \* deltaManager.clientType, or "none" without a delta manager
    tasks,             \* the task list registerTasks stored
    connectedListeners, \* the "connected" listeners startLeaderElection has registered
    leaderElections,   \* the client ids initLeaderElection made a LeaderElector for
    log,               \* the quorum events the ordering layer has sequenced
    pos,               \* client -> number of quorum events the client has processed
    proposals,         \* the clients whose leadership proposal is not sequenced yet
    handled,           \* client -> what its runtime did for the last event it processed
    componentContext,  \* a component context: its package path and how far it has come
    search             \* a call of tryFindDependencyPath: its file system and its testPath

hostVars == << clientId, clientType, tasks, connectedListeners, leaderElections >>

runtimeVars == << channels, channelsDeferred, closed, pendingAttach, connectionState,
                  objects, connections, inflight, context, loadPc, started, storageReads,
                  stopResult, last, hostVars >>

electionVars == << log, pos, proposals, handled >>

contextVars == << componentContext >>

toolVars == << search >>

vars == << runtimeVars, electionVars, contextVars, toolVars >>

\* ------------------------------------------------------------------ values
NoStorage == [kind |-> "none", tree |-> "none"]
NoEntry == [object |-> Null, connection |-> Null, storage |-> NoStorage]
NoDeferred == [exists |-> FALSE, resolved |-> FALSE, value |-> Null]
NoContext == [object |-> Null, connection |-> Null, storage |-> NoStorage]
NoResult == [returned |-> FALSE, threw |-> FALSE, entries |-> {}]

States == {"Disconnected", "Connected"}

\* new Deferred<IChannel>()
NewDeferred == [exists |-> TRUE, resolved |-> FALSE, value |-> Null]

\* Deferred.resolve(channel): settling a promise a second time does nothing
Resolve(d, o) == IF d.resolved THEN d ELSE [exists |-> TRUE, resolved |-> TRUE, value |-> o]

\* a resolve that settles only a deferred some getChannel has created
ResolveDeferredIfRequested(defs, id, o) ==
    IF defs[id].exists THEN [defs EXCEPT ![id] = Resolve(defs[id], o)] ELSE defs

\* channelsDeferred after "resolve the deferred of id, creating it when missing"
ResolveDeferred(defs, id, o) ==
    [defs EXCEPT ![id] = Resolve(IF defs[id].exists THEN defs[id] ELSE NewDeferred, o)]

\* new ChannelDeltaConnection(id, connectionState, submitFn)
NewConnection(id, state) ==
    [id |-> id, state |-> state, baseSet |-> FALSE, baseLocal |-> 0, baseDoc |-> 0,
     minimumSequenceNumber |-> 0]

\* the slot of an object that has been given no connection
NoConnection ==
    [id |-> "", state |-> "", baseSet |-> FALSE, baseLocal |-> 0, baseDoc |-> 0,
     minimumSequenceNumber |-> 0]

\* ChannelDeltaConnection.baseMappingIsSet()
baseMappingIsSet(c) == c.baseSet

\* ChannelDeltaConnection.setBaseMapping(sequenceNumber, documentSequenceNumber),
\* applied to a connection whose mapping is not set yet
setBaseMapping(c, sequenceNumber, documentSequenceNumber) ==
    [c EXCEPT !.baseSet = TRUE, !.baseLocal = sequenceNumber,
              !.baseDoc = documentSequenceNumber, !.minimumSequenceNumber = sequenceNumber]

\* an update that takes whatever value it is given
connUpdateMinSequenceNumberAssigned(c, msn) == [c EXCEPT !.minimumSequenceNumber = msn]

\* ChannelDeltaConnection.updateMinSequenceNumber(msn): the low-water mark only advances
connUpdateMinSequenceNumber(c, msn) ==
    IF msn > c.minimumSequenceNumber THEN [c EXCEPT !.minimumSequenceNumber = msn] ELSE c

\* ChannelDeltaConnection.translateToObjectMessage(message, true): the sequence number
\* is rewritten into the channel's space; document sequence numbers up to the mapping
\* point are the channel's base sequence number
translateToObjectMessage(c, message) ==
    [message EXCEPT !.sequenceNumber =
        IF @ <= c.baseDoc THEN c.baseLocal ELSE c.baseLocal + (@ - c.baseDoc)]

\* ChannelDeltaConnection.setConnectionState(state)
setConnectionState(c, state) == [c EXCEPT !.state = state]

\* IChannel.isLocal(): a channel is local until it has been given its services
isLocal(o) == o.services = Null

\* IChannel.snapshot(): the channel's own tree, here its content
ChannelSnapshot(o) == o.content

\* new ChannelStorageService(tree, storage): reads go to the external storage service
ChannelStorageService(tree) == [kind |-> "external", tree |-> tree]

\* new LocalChannelStorageService(snapshot): reads are served from the attach snapshot
LocalChannelStorageService(snapshot) == [kind |-> "local", tree |-> snapshot]

\* ------------------------------------------------------------------ pending-attach map
PendingIds(p) == {p[i].id : i \in 1..Len(p)}

PendingHas(p, id) == id \in PendingIds(p)

PendingGet(p, id) == p[CHOOSE i \in 1..Len(p) : p[i].id = id]

\* Map.set keeps the position of a key that is already present
PendingSet(p, m) ==
    IF PendingHas(p, m.id)
    THEN [i \in 1..Len(p) |-> IF p[i].id = m.id THEN m ELSE p[i]]
    ELSE Append(p, m)

PendingDelete(p, id) == SelectSeq(p, LAMBDA m : m.id # id)

\* ------------------------------------------------------------------ messages
AttachMessage(id, snapshot, type) == [id |-> id, snapshot |-> snapshot, type |-> type]

\* what submitFn is called with: the message type and its contents. resent marks the
\* calls changeConnectionState makes for messages that were submitted before.
AttachOp(message) == [type |-> "Attach", contents |-> message, resent |-> FALSE]

ResentAttachOp(message) == [type |-> "Attach", contents |-> message, resent |-> TRUE]

OperationOp(address) ==
    [type |-> "Operation", contents |-> [address |-> address], resent |-> FALSE]

NoMessage == [type |-> "none", contents |-> [id |-> ""], resent |-> FALSE]

\* submitFn: the host hands a message to the ordering layer only while connected
SubmitFn(queue, state, m) == IF state = "Connected" THEN Append(queue, m) ELSE queue

RECURSIVE SubmitAll(_, _, _)
SubmitAll(queue, state, ms) ==
    IF ms = << >> THEN queue
    ELSE SubmitAll(SubmitFn(queue, state, Head(ms)), state, Tail(ms))

\* the record of a call: the operation, how it ended and what it passed to submitFn;
\* for a call that handles a sequenced message, the message and its
\* minimumSequenceNumber
Call(op, err, sent) ==
    [op |-> op, err |-> err, sent |-> sent, message |-> NoMessage, msn |-> 0,
     effects |-> << >>]

Handled(op, err, message, msn) ==
    [op |-> op, err |-> err, sent |-> << >>, message |-> message, msn |-> msn,
     effects |-> << >>]

\* verifyNotClosed() fails: the call throws and nothing changes
ThrowClosed(op) ==
    /\ last' = Call(op, "closed", << >>)
    /\ UNCHANGED << channels, channelsDeferred, closed, pendingAttach, connectionState,
                    objects, connections, inflight, context, loadPc, started,
                    storageReads, stopResult >>

\* ------------------------------------------------------------------ snapshotInternal
\* the channels snapshotInternal reaches with a null connection: the call throws
SnapshotThrows(chs, objs, conns) ==
    \E id \in Ids :
        /\ chs[id] # NoEntry
        /\ ~isLocal(objs[chs[id].object])
        /\ chs[id].connection = Null

\* JSON.stringify of an IObjectAttributes: its members, in the order of the interface,
\* as name and value
JSONStringify(attributes) ==
    << << "sequenceNumber", attributes.sequenceNumber >>, << "type", attributes.type >> >>

\* attributes that record the sequence number the channel's space starts at
ObjectAttributesOfBase(entry, objs, conns) ==
    [sequenceNumber |-> conns[entry.connection].baseLocal,
     type |-> objs[entry.object].type]

\* the IObjectAttributes snapshotInternal writes for a channel
ObjectAttributes(entry, objs, conns) ==
    [sequenceNumber |-> conns[entry.connection].minimumSequenceNumber,
     type |-> objs[entry.object].type]

\* the .attributes blob snapshotInternal pushes on the channel's snapshot
AttributesBlob(entry, objs, conns) ==
    [mode |-> "File", path |-> ".attributes", type |-> "Blob",
     value |-> [contents |-> JSONStringify(ObjectAttributes(entry, objs, conns)),
                encoding |-> "utf-8"]]

\* the directory entry of a channel: the channel's snapshot, with the .attributes blob
\* added to its entries, under the channel's id
SnapshotEntry(id, entry, objs, conns) ==
    [mode |-> "Directory",
     path |-> id,
     type |-> "Tree",
     object |-> entry.object,
     value |-> [tree |-> ChannelSnapshot(objs[entry.object]),
                entries |-> << AttributesBlob(entry, objs, conns) >>]]

\* a filter that takes every channel that has services, acknowledged or not
SnapshotIncludesUnacknowledged(entry, objs, conns) ==
    /\ ~isLocal(objs[entry.object])
    /\ entry.connection # Null

SnapshotIncludes(entry, objs, conns) ==
    /\ ~isLocal(objs[entry.object])
    /\ baseMappingIsSet(conns[entry.connection])

snapshotInternal(chs, objs, conns) ==
    IF SnapshotThrows(chs, objs, conns)
    THEN [returned |-> FALSE, threw |-> TRUE, entries |-> {}]
    ELSE [returned |-> TRUE, threw |-> FALSE,
          entries |-> {SnapshotEntry(id, chs[id], objs, conns) :
                          id \in {i \in Ids : chs[i] # NoEntry
                                               /\ SnapshotIncludes(chs[i], objs, conns)}}]

\* ------------------------------------------------------------------ initial state
\* The runtime is constructed by LoadFromSnapshot with the channels of the snapshot,
\* each reserved (an unresolved deferred) before any is loaded.
SnapshotAttributes(id) == [sequenceNumber |-> 0, type |-> "TypeA"]

\* the clients of the document, in the order of their ids
Clients == {"A", "B", "C"}

Rank == [c \in Clients |-> CASE c = "A" -> 1 [] c = "B" -> 2 [] c = "C" -> 3]

\* the task list every client registers, the tasks among them that run in a browser
\* client (the others need a headless agent), and the tasks each client declares to run
Tasks == {"spell", "intel"}

BrowserTasks == {"spell"}

Serves == [c \in Clients |-> CASE c = "A" -> {} [] c = "B" -> {"spell"} [] c = "C" -> {"intel"}]

\* a client that has not connected has handled nothing
NoHandled ==
    [index |-> 0, event |-> "none", candidate |-> "none", proposed |-> FALSE,
     analysed |-> FALSE, localHelp |-> << >>, remoteHelp |-> << >>, requested |-> {}]

\* the quorum is empty when the container starts
ElectionInit ==
    /\ log = << >>
    /\ pos = [c \in Clients |-> 0]
    /\ proposals = {}
    /\ handled = [c \in Clients |-> NoHandled]

\* deltaManager.clientType of the clients
Browser == "browser"

ClientTypes == {Browser, "robot", "none"}

\* the client ids the host passes to the runtime
ClientIds == {"A", "B"}

InitialClientId == "A"

\* the order in which the channel map holds the channels
ChannelOrder == << "c1", "c2" >>

NoTasks == {}

\* no component context has been made
NoComponentContext ==
    [kind |-> "none", id |-> "", pkg |-> << >>, registry |-> "none", pc |-> "none",
     error |-> "none", blob |-> << >>, attachMessage |-> [type |-> "", snapshot |-> << >>],
     snapshot |-> << >>]

\* tryFindDependencyPath has not been called
NoSearch == [pc |-> "none", packageDir |-> 0, modules |-> {}, lerna |-> {}, ups |-> 0]

\* new Runtime(...) in LoadFromSnapshot, for a client of the given type
Constructed(type) ==
    /\ search = NoSearch
    /\ componentContext = NoComponentContext
    /\ clientType = type
    /\ clientId = InitialClientId
    /\ tasks = NoTasks
    /\ connectedListeners = 0
    /\ leaderElections = << >>
    /\ ElectionInit
    /\ \E snap \in SUBSET SnapshotIds :
          /\ loadPc = [id \in Ids |-> IF id \in snap THEN "read" ELSE "none"]
          /\ channelsDeferred = [id \in Ids |-> IF id \in snap THEN NewDeferred ELSE NoDeferred]
    /\ channels = [id \in Ids |-> NoEntry]
    /\ closed = FALSE
    /\ pendingAttach = << >>
    /\ connectionState \in States
    /\ objects = << >>
    /\ connections = << >>
    /\ inflight = << >>
    /\ context = NoContext
    /\ started = FALSE
    /\ storageReads = 0
    /\ stopResult = NoResult
    /\ last = Call("new", "none", << >>)

Init == Constructed(Browser)

\* ------------------------------------------------------------------ LoadFromSnapshot
\* IChaincodeModule.load(...): the channel object a module builds from its services
LoadedObject(id, type, origin, c, content, messages) ==
    [id |-> id, type |-> type, origin |-> origin, services |-> c, content |-> content,
     messages |-> messages]

\* a translation that hands the backlog over newest message first
TransformedObjectMessagesReversed(c, messages) ==
    [i \in 1..Len(messages) |->
        translateToObjectMessage(c, messages[Len(messages) + 1 - i])]

\* messages.map((message) => services.deltaConnection.translateToObjectMessage(...))
TransformedObjectMessages(c, messages) ==
    [i \in 1..Len(messages) |-> translateToObjectMessage(c, messages[i])]

\* loadSnapshotChannel up to its first await: readAndParse of the .attributes blob,
\* which reads the external storage service and may fail
LoadRead(id) ==
    /\ UNCHANGED electionVars
    /\ UNCHANGED contextVars
    /\ UNCHANGED toolVars
    /\ UNCHANGED hostVars
    /\ loadPc[id] = "read"
    /\ storageReads' = storageReads + 1
    /\ \E ok \in BOOLEAN :
          loadPc' = [loadPc EXCEPT ![id] = IF ok THEN "load" ELSE "failed"]
    /\ UNCHANGED << channels, channelsDeferred, closed, pendingAttach, connectionState,
                    objects, connections, inflight, context, started, stopResult, last >>

\* loadSnapshotChannel after readAndParse: getObjectServices, setBaseMapping, loadChannel
\* (which may fail) and, when the load resolved, registration of the channel
LoadFinish(id, messages) ==
    /\ UNCHANGED electionVars
    /\ UNCHANGED contextVars
    /\ UNCHANGED toolVars
    /\ UNCHANGED hostVars
    /\ loadPc[id] = "load"
    /\ Len(objects) < MaxObjects
    /\ \E ok \in BOOLEAN :
          IF ok
          THEN LET attrs == SnapshotAttributes(id)
                   o == Len(objects) + 1
                   c == o
                   conn == setBaseMapping(NewConnection(id, connectionState),
                                          attrs.sequenceNumber, LoadMinimumSequenceNumber)
               IN /\ connections' = Append(connections, conn)
                  /\ objects' = Append(objects,
                                       LoadedObject(id, attrs.type, "snapshot", c, 0,
                                                    TransformedObjectMessages(conn, messages)))
                  /\ channels' = [channels EXCEPT ![id] =
                                     [object |-> o, connection |-> c,
                                      storage |-> ChannelStorageService(id)]]
                  /\ channelsDeferred' =
                         [channelsDeferred EXCEPT ![id] = Resolve(channelsDeferred[id], o)]
                  /\ loadPc' = [loadPc EXCEPT ![id] = "done"]
          ELSE /\ loadPc' = [loadPc EXCEPT ![id] = "failed"]
               /\ UNCHANGED << connections, objects, channels, channelsDeferred >>
    /\ UNCHANGED << closed, pendingAttach, connectionState, inflight, context, started,
                    storageReads, stopResult, last >>

\* await Promise.all(loadSnapshotsP); await runtime.start(platform); return runtime
Start ==
    /\ UNCHANGED electionVars
    /\ UNCHANGED contextVars
    /\ UNCHANGED toolVars
    /\ UNCHANGED hostVars
    /\ ~started
    /\ \A id \in Ids : loadPc[id] \in {"none", "done"}
    /\ started' = TRUE
    /\ UNCHANGED << channels, channelsDeferred, closed, pendingAttach, connectionState,
                    objects, connections, inflight, context, loadPc, storageReads,
                    stopResult, last >>

\* ------------------------------------------------------------------ public operations
getChannel(id) ==
    /\ UNCHANGED electionVars
    /\ UNCHANGED contextVars
    /\ UNCHANGED toolVars
    /\ UNCHANGED hostVars
    /\ IF closed THEN ThrowClosed("getChannel")
       ELSE /\ channelsDeferred' =
                   IF channelsDeferred[id].exists THEN channelsDeferred
                   ELSE [channelsDeferred EXCEPT ![id] = NewDeferred]
            /\ last' = Call("getChannel", "none", << >>)
            /\ UNCHANGED << channels, closed, pendingAttach, connectionState, objects,
                            connections, inflight, context, loadPc, started, storageReads,
                            stopResult >>

\* IChaincodeModule.create(runtime, id): a new local channel object
CreatedObject(id, type) ==
    [id |-> id, type |-> type, origin |-> "local", services |-> Null, content |-> 0,
     messages |-> << >>]

\* a chaincode that has a module for every type
getModuleOfAnyType(type) == IF type \in Types THEN type ELSE "TypeA"

\* this.chaincode.getModule(type): the module of a type the chaincode knows, undefined
\* for any other type
getModule(type) == IF type \in Types THEN type ELSE "undefined"

createChannel(id, type) ==
    /\ UNCHANGED electionVars
    /\ UNCHANGED contextVars
    /\ UNCHANGED toolVars
    /\ UNCHANGED hostVars
    /\ started
    /\ IF closed THEN ThrowClosed("createChannel")
       ELSE IF getModule(type) = "undefined"
       THEN /\ last' = Call("createChannel", "TypeError", << >>)
            /\ UNCHANGED << channels, channelsDeferred, closed, pendingAttach,
                            connectionState, objects, connections, inflight, context,
                            loadPc, started, storageReads, stopResult >>
       ELSE /\ Len(objects) < MaxObjects
            /\ LET o == Len(objects) + 1
               IN /\ objects' = Append(objects, CreatedObject(id, getModule(type)))
                  /\ connections' = Append(connections, NoConnection)
                  /\ channels' = [channels EXCEPT ![id] =
                                     [object |-> o, connection |-> Null,
                                      storage |-> NoStorage]]
                  /\ channelsDeferred' = ResolveDeferred(channelsDeferred, id, o)
            /\ last' = Call("createChannel", "none", << >>)
            /\ UNCHANGED << closed, pendingAttach, connectionState, inflight, context,
                            loadPc, started, storageReads, stopResult >>

\* the channel objects a caller can hold: every object but the one prepareAttach is
\* still loading
Exposed(o) == o \in 1..Len(objects) /\ o # context.object

\* getObjectServices(id, tree, storage)
getObjectServices(id, tree) ==
    [deltaConnection |-> NewConnection(id, connectionState),
     objectStorage |-> ChannelStorageService(tree)]

\* an attach message that carries an empty snapshot
AttachMessageOfEmptySnapshot(channel) ==
    AttachMessage(channel.id, 0, channel.type)

\* the IAttachMessage attachChannel builds for a channel
AttachMessageOf(channel) ==
    AttachMessage(channel.id, ChannelSnapshot(channel), channel.type)

attachChannel(o) ==
    /\ UNCHANGED electionVars
    /\ UNCHANGED contextVars
    /\ UNCHANGED toolVars
    /\ UNCHANGED hostVars
    /\ started
    /\ Exposed(o)
    /\ IF closed THEN ThrowClosed("attachChannel")
       ELSE /\ Len(inflight) < MaxInflight
            /\ LET channel == objects[o]
                   message == AttachMessageOf(channel)
                   services == getObjectServices(channel.id, "none")
                   c == o
                   entry == channels[channel.id]
               IN /\ pendingAttach' = PendingSet(pendingAttach, message)
                  /\ inflight' = SubmitFn(inflight, connectionState, AttachOp(message))
                  /\ IF entry = NoEntry
                     THEN /\ last' = Call("attachChannel", "TypeError", << AttachOp(message) >>)
                          /\ UNCHANGED << channels, objects, connections >>
                     ELSE IF entry.object # o
                     THEN /\ last' = Call("attachChannel", "assert", << AttachOp(message) >>)
                          /\ UNCHANGED << channels, objects, connections >>
                     ELSE /\ connections' = [connections EXCEPT ![c] =
                                                services.deltaConnection]
                          /\ channels' = [channels EXCEPT ![channel.id] =
                                             [object |-> o, connection |-> c,
                                              storage |-> services.objectStorage]]
                          /\ objects' = [objects EXCEPT ![o].services = c]
                          /\ last' = Call("attachChannel", "none", << AttachOp(message) >>)
            /\ UNCHANGED << channelsDeferred, closed, connectionState, context, loadPc,
                            started, storageReads, stopResult >>

\* the connections the channel map refers to
MappedConnections(chs) == {chs[id].connection : id \in Ids} \ {Null}

\* the prefixes of a queue: what the ordering layer had already taken when the
\* connection was lost
Prefixes(q) == {SubSeq(q, 1, n) : n \in 0..Len(q)}

\* a resubmission that sends the messages with an empty snapshot
ResubmittedEmptySnapshot(p) ==
    [i \in 1..Len(p) |-> ResentAttachOp([p[i] EXCEPT !.snapshot = 0])]

\* the pending attach messages, as changeConnectionState submits them again
Resubmitted(p) == [i \in 1..Len(p) |-> ResentAttachOp(p[i])]

\* an operation a channel submits again when its connection tells it that the client
\* is connected again
ResentOperationOp(address) == [OperationOp(address) EXCEPT !.resent = TRUE]

\* what a call does, in the order in which it does it: a message passed to submit, an
\* event emitted, a delta connection told the connection state
SubmitEffect(message) == [kind |-> "submit", subject |-> "", message |-> message]

EmitEffect(event, argument) ==
    [kind |-> "emit:" \o event, subject |-> argument, message |-> NoMessage]

NotifyEffect(id, state) ==
    [kind |-> "setConnectionState:" \o state, subject |-> id, message |-> NoMessage]

\* the ids of the channels that have a delta connection
NotifiedIds(chs) == {id \in Ids : chs[id] # NoEntry /\ chs[id].connection # Null}

\* for (const [, object] of this.channels): every channel with a connection is told the
\* state, and a channel with operations that were not acknowledged submits them again
RECURSIVE Notifications(_, _, _, _)
Notifications(order, chs, state, resending) ==
    IF order = << >> THEN << >>
    ELSE (IF Head(order) \in NotifiedIds(chs)
          THEN << NotifyEffect(Head(order), state) >>
                   \o (IF Head(order) \in resending
                       THEN << SubmitEffect(ResentOperationOp(Head(order))) >>
                       ELSE << >>)
          ELSE << >>)
         \o Notifications(Tail(order), chs, state, resending)

\* the resubmission of the pending attach messages and the "connected" event
Reconnection(p, state, id) ==
    IF state = "Connected"
    THEN [i \in 1..Len(p) |-> SubmitEffect(Resubmitted(p)[i])]
             \o << EmitEffect("connected", id) >>
    ELSE << >>

\* a runtime that tells the channels the state before it submits the attach messages
ConnectionEffectsChannelsFirst(p, chs, state, id, order, resending) ==
    Notifications(order, chs, state, resending) \o Reconnection(p, state, id)

\* what changeConnectionState does after it has stored the state and the client id
ConnectionEffects(p, chs, state, id, order, resending) ==
    Reconnection(p, state, id) \o Notifications(order, chs, state, resending)

\* the messages among the effects, in their order
RECURSIVE SubmittedBy(_)
SubmittedBy(effects) ==
    IF effects = << >> THEN << >>
    ELSE (IF Head(effects).kind = "submit" THEN << Head(effects).message >> ELSE << >>)
         \o SubmittedBy(Tail(effects))

\* a runtime that takes every call for a change of the state
SameConnectionStateNever(value, state) == value = state /\ value # state

\* if (value === this.connectionState) return
SameConnectionState(value, state) == value = state

\* listeners that stay registered after they have run
RemainingListenersKept(listeners) == listeners

\* this.removeListener("connected", leaderElectionHandler): a listener that has run is
\* gone
RemainingListeners(listeners) == 0

\* initLeaderElection(): a LeaderElector is made for the client id the runtime holds
initLeaderElection(elections, id) == Append(elections, id)

\* emit("connected", clientId): every listener startLeaderElection registered runs
\* initLeaderElection
RECURSIVE EmitConnected(_, _, _)
EmitConnected(elections, listeners, id) ==
    IF listeners = 0 THEN elections
    ELSE EmitConnected(initLeaderElection(elections, id), listeners - 1, id)

\* changeConnectionState(value, clientId); order is the order of the channel map and
\* resending the channels that have operations to submit again
changeConnectionState(value, id, order, resending) ==
    /\ UNCHANGED electionVars
    /\ UNCHANGED contextVars
    /\ UNCHANGED toolVars
    /\ UNCHANGED << clientType, tasks >>
    /\ started
    /\ resending \subseteq NotifiedIds(channels)
    /\ value # "Connected" => resending = {}
    /\ IF closed
       THEN /\ ThrowClosed("changeConnectionState")
            /\ UNCHANGED << clientId, connectedListeners, leaderElections >>
       ELSE IF SameConnectionState(value, connectionState)
       THEN /\ last' = Call("changeConnectionState", "none", << >>)
            /\ UNCHANGED << channels, channelsDeferred, closed, pendingAttach,
                            connectionState, objects, connections, inflight, context,
                            loadPc, started, storageReads, stopResult >>
            /\ UNCHANGED << clientId, connectedListeners, leaderElections >>
       ELSE LET effects == ConnectionEffects(pendingAttach, channels, value, id, order,
                                             resending)
            IN /\ connectionState' = value
               /\ clientId' = id
               /\ IF value = "Connected"
                  THEN /\ Len(inflight) + Len(SubmittedBy(effects)) <= MaxInflight
                       /\ inflight' = SubmitAll(inflight, value, SubmittedBy(effects))
                       /\ leaderElections' =
                              EmitConnected(leaderElections, connectedListeners, id)
                       /\ connectedListeners' = RemainingListeners(connectedListeners)
                  ELSE /\ inflight' \in Prefixes(inflight)
                       /\ UNCHANGED << connectedListeners, leaderElections >>
               /\ last' = [Call("changeConnectionState", "none", SubmittedBy(effects))
                              EXCEPT !.effects = effects]
               /\ connections' = [c \in 1..Len(connections) |->
                                     IF c \in MappedConnections(channels)
                                     THEN setConnectionState(connections[c], value)
                                     ELSE connections[c]]
               /\ UNCHANGED << channels, channelsDeferred, closed, pendingAttach, objects,
                               context, loadPc, started, storageReads, stopResult >>

\* startLeaderElection(): what registerTasks starts for a client of the given type
startLeaderElection(type, state) ==
    IF type = Browser
    THEN (IF state = "Connected" THEN "initLeaderElection" ELSE "listen")
    ELSE "none"

\* registerTasks(tasks, version)
registerTasks(taskList) ==
    /\ UNCHANGED electionVars
    /\ UNCHANGED contextVars
    /\ UNCHANGED toolVars
    /\ UNCHANGED << clientId, clientType >>
    /\ started
    /\ IF closed
       THEN /\ ThrowClosed("registerTasks")
            /\ UNCHANGED << tasks, connectedListeners, leaderElections >>
       ELSE /\ Len(leaderElections) + connectedListeners < MaxRegistrations
            /\ tasks' = taskList
            /\ LET start == startLeaderElection(clientType, connectionState)
               IN /\ leaderElections' = IF start = "initLeaderElection"
                                        THEN initLeaderElection(leaderElections, clientId)
                                        ELSE leaderElections
                  /\ connectedListeners' = IF start = "listen"
                                           THEN connectedListeners + 1
                                           ELSE connectedListeners
            /\ last' = Call("registerTasks", "none", << >>)
            /\ UNCHANGED << channels, channelsDeferred, closed, pendingAttach,
                            connectionState, objects, connections, inflight, context,
                            loadPc, started, storageReads, stopResult >>

\* the base mapping processAttach gives the connection of a channel whose own attach
\* message came back: document sequence numbers up to the minimum sequence number map
\* to the channel's sequence number 0
LocalBaseMapping(c, minimumSequenceNumber) == setBaseMapping(c, 0, minimumSequenceNumber)

\* processAttach(message, local = true, context)
processAttachLocal(message, minimumSequenceNumber) ==
    LET attachMessage == message.contents
        entry == channels[attachMessage.id]
        c == entry.connection
    IN IF closed THEN ThrowClosed("processAttach(local)")
       ELSE IF ~PendingHas(pendingAttach, attachMessage.id)
       THEN /\ last' = Handled("processAttach(local)", "assert", message,
                               minimumSequenceNumber)
            /\ inflight' = Tail(inflight)
            /\ UNCHANGED << channels, channelsDeferred, closed, pendingAttach,
                            connectionState, objects, connections, context, loadPc,
                            started, storageReads, stopResult >>
       ELSE /\ pendingAttach' = PendingDelete(pendingAttach, attachMessage.id)
            /\ inflight' = Tail(inflight)
            /\ IF entry = NoEntry \/ c = Null
               THEN /\ last' = Handled("processAttach(local)", "TypeError", message,
                                       minimumSequenceNumber)
                    /\ UNCHANGED connections
               ELSE IF baseMappingIsSet(connections[c])
               THEN /\ last' = Handled("processAttach(local)", "assert", message,
                                       minimumSequenceNumber)
                    /\ UNCHANGED connections
               ELSE /\ connections' = [connections EXCEPT ![c] =
                                          LocalBaseMapping(@, minimumSequenceNumber)]
                    /\ last' = Handled("processAttach(local)", "none", message,
                                       minimumSequenceNumber)
            /\ UNCHANGED << channels, channelsDeferred, closed, connectionState, objects,
                            context, loadPc, started, storageReads, stopResult >>

\* a routing that skips an operation whose address is not registered
RoutingErrorSkipsUnknown(chs, address) ==
    IF chs[address] = NoEntry THEN "none"
    ELSE IF chs[address].connection = Null THEN "TypeError"
    ELSE "none"

\* how prepare and process end: assert(objectDetails) fails for an address that is not
\* registered, and objectDetails.connection of an entry without connection is null
RoutingError(chs, address) ==
    IF chs[address] = NoEntry THEN "assert"
    ELSE IF chs[address].connection = Null THEN "TypeError"
    ELSE "none"

\* prepare(message, local) followed by process(message, local, context)
process(address, local) ==
    IF closed THEN ThrowClosed("process")
    ELSE /\ last' = Handled("process", RoutingError(channels, address),
                            OperationOp(address), 0)
         /\ inflight' = IF local THEN Tail(inflight) ELSE inflight
         /\ UNCHANGED << channels, channelsDeferred, closed, pendingAttach,
                         connectionState, objects, connections, context, loadPc, started,
                         storageReads, stopResult >>

\* the ordering layer echoes the oldest message in flight back to its sender
DeliverLocal(minimumSequenceNumber) ==
    /\ UNCHANGED electionVars
    /\ UNCHANGED contextVars
    /\ UNCHANGED toolVars
    /\ UNCHANGED hostVars
    /\ started
    /\ context = NoContext
    /\ inflight # << >>
    /\ LET message == Head(inflight)
       IN IF message.type = "Attach"
          THEN processAttachLocal(message, minimumSequenceNumber)
          ELSE process(message.contents.address, TRUE)

\* an operation of another client arrives
DeliverRemoteOperation(address) ==
    /\ UNCHANGED electionVars
    /\ UNCHANGED contextVars
    /\ UNCHANGED toolVars
    /\ UNCHANGED hostVars
    /\ started
    /\ context = NoContext
    /\ process(address, FALSE)

\* the services prepareAttach builds for the channel of a remote attach message: a
\* storage service that wraps the attach data, and a delta connection whose base mapping
\* is set
prepareAttachServices(attachMessage, minimumSequenceNumber) ==
    [deltaConnection |-> setBaseMapping(NewConnection(attachMessage.id, connectionState),
                                        0, minimumSequenceNumber),
     objectStorage |-> LocalChannelStorageService(attachMessage.snapshot)]

\* prepareAttach(message, local = false)
prepareAttach(attachMessage, minimumSequenceNumber) ==
    /\ UNCHANGED electionVars
    /\ UNCHANGED contextVars
    /\ UNCHANGED toolVars
    /\ UNCHANGED hostVars
    /\ started
    /\ context = NoContext
    /\ IF closed THEN ThrowClosed("prepareAttach")
       ELSE /\ Len(objects) < MaxObjects
            /\ LET o == Len(objects) + 1
                   c == o
                   services == prepareAttachServices(attachMessage, minimumSequenceNumber)
               IN /\ connections' = Append(connections, services.deltaConnection)
                  /\ objects' = Append(objects,
                                       LoadedObject(attachMessage.id, attachMessage.type,
                                                    "remote", c, attachMessage.snapshot,
                                                    << >>))
                  /\ context' = [object |-> o, connection |-> c,
                                 storage |-> services.objectStorage]
            /\ last' = Handled("prepareAttach", "none", AttachOp(attachMessage),
                               minimumSequenceNumber)
            /\ UNCHANGED << channels, channelsDeferred, closed, pendingAttach,
                            connectionState, inflight, loadPc, started, storageReads,
                            stopResult >>

\* processAttach(message, local = false, context)
processAttachRemote ==
    /\ UNCHANGED electionVars
    /\ UNCHANGED contextVars
    /\ UNCHANGED toolVars
    /\ UNCHANGED hostVars
    /\ started
    /\ context # NoContext
    /\ LET id == objects[context.object].id
       IN IF closed THEN ThrowClosed("processAttach(remote)")
          ELSE /\ channels' = [channels EXCEPT ![id] = context]
               /\ channelsDeferred' = ResolveDeferred(channelsDeferred, id, context.object)
               /\ context' = NoContext
               /\ last' = Handled("processAttach(remote)", "none",
                                  AttachOp(AttachMessage(id, context.storage.tree,
                                                         objects[context.object].type)),
                                  connections[context.connection].baseDoc)
               /\ UNCHANGED << closed, pendingAttach, connectionState, objects,
                               connections, inflight, loadPc, started, storageReads,
                               stopResult >>

stop ==
    /\ UNCHANGED electionVars
    /\ UNCHANGED contextVars
    /\ UNCHANGED toolVars
    /\ UNCHANGED hostVars
    /\ started
    /\ IF closed THEN ThrowClosed("stop")
       ELSE /\ closed' = TRUE
            /\ stopResult' = snapshotInternal(channels, objects, connections)
            /\ last' = Call("stop", IF stopResult'.threw THEN "TypeError" ELSE "none", << >>)
            /\ UNCHANGED << channels, channelsDeferred, pendingAttach, connectionState,
                            objects, connections, inflight, context, loadPc, started,
                            storageReads >>

\* a forwarding to every channel that has a connection
UpdatedConnectionsUnmapped(chs, objs, conns) ==
    {chs[id].connection : id \in {i \in Ids : chs[i] # NoEntry}} \ {Null}

\* the connections updateMinSequenceNumber forwards msn to
UpdatedConnections(chs, objs, conns) ==
    {chs[id].connection : id \in {i \in Ids : chs[i] # NoEntry
                                               /\ SnapshotIncludes(chs[i], objs, conns)}}

updateMinSequenceNumber(msn) ==
    /\ UNCHANGED electionVars
    /\ UNCHANGED contextVars
    /\ UNCHANGED toolVars
    /\ UNCHANGED hostVars
    /\ started
    /\ IF SnapshotThrows(channels, objects, connections)
       THEN /\ last' = Call("updateMinSequenceNumber", "TypeError", << >>)
            /\ UNCHANGED connections
       ELSE /\ connections' = [c \in 1..Len(connections) |->
                                  IF c \in UpdatedConnections(channels, objects, connections)
                                  THEN connUpdateMinSequenceNumber(connections[c], msn)
                                  ELSE connections[c]]
            /\ last' = Call("updateMinSequenceNumber", "none", << >>)
    /\ UNCHANGED << channels, channelsDeferred, closed, pendingAttach, connectionState,
                    objects, inflight, context, loadPc, started, storageReads,
                    stopResult >>

\* A channel changes its state; a channel that has services sends the change through
\* its delta connection, whose submit callback wraps it in an envelope addressed to the
\* channel's id and calls submit(MessageType.Operation, envelope)
LocalOperation(o) ==
    /\ UNCHANGED electionVars
    /\ UNCHANGED contextVars
    /\ UNCHANGED toolVars
    /\ UNCHANGED hostVars
    /\ started
    /\ Exposed(o)
    /\ objects[o].content + 1 \in Contents
    /\ IF isLocal(objects[o])
       THEN /\ ~closed
            /\ objects' = [objects EXCEPT ![o].content = @ + 1]
            /\ last' = Call("edit", "none", << >>)
            /\ UNCHANGED << channels, channelsDeferred, closed, pendingAttach,
                            connectionState, connections, inflight, context, loadPc,
                            started, storageReads, stopResult >>
       ELSE IF closed THEN ThrowClosed("submit")
       ELSE /\ Len(inflight) < MaxInflight
            /\ LET envelope == OperationOp(connections[objects[o].services].id)
               IN /\ inflight' = SubmitFn(inflight, connectionState, envelope)
                  /\ last' = Call("submit", "none", << envelope >>)
            /\ objects' = [objects EXCEPT ![o].content = @ + 1]
            /\ UNCHANGED << channels, channelsDeferred, closed, pendingAttach,
                            connectionState, connections, context, loadPc, started,
                            storageReads, stopResult >>

\* ------------------------------------------------------------------ leader election
\* Each client runs its own Runtime on the one sequence of quorum events; a client that
\* connects has the quorum as of its own join.
NoClient == "none"

JoinEvent(c) == [type |-> "join", client |-> c]

LeaveEvent(c) == [type |-> "leave", client |-> c]

ApproveEvent(c) == [type |-> "approve", client |-> c]

Sequenced(e) == \E i \in 1..Len(log) : log[i] = e

\* the clients that are connected: their join is sequenced and their leave is not
ConnectedClients == {c \in Clients : Sequenced(JoinEvent(c)) /\ ~Sequenced(LeaveEvent(c))}

\* this.getQuorum().getMembers() of a client that has processed n events
RECURSIVE MembersAt(_, _)
MembersAt(events, n) ==
    IF n = 0 THEN {}
    ELSE IF events[n].type = "join" THEN MembersAt(events, n - 1) \cup {events[n].client}
    ELSE IF events[n].type = "leave" THEN MembersAt(events, n - 1) \ {events[n].client}
    ELSE MembersAt(events, n - 1)

\* this.leaderElector.getLeader() of a client that has processed n events: the client
\* of the last accepted proposal, until that client leaves
RECURSIVE LeaderAt(_, _)
LeaderAt(events, n) ==
    IF n = 0 THEN NoClient
    ELSE IF events[n].type = "approve" THEN events[n].client
    ELSE IF events[n].type = "leave" /\ events[n].client = LeaderAt(events, n - 1)
         THEN NoClient
    ELSE LeaderAt(events, n - 1)

\* getLeaderCandidate(members): the lowest-ordered member
getLeaderCandidate(members) ==
    IF members = {} THEN NoClient
    ELSE CHOOSE m \in members : \A n \in members : Rank[m] <= Rank[n]

\* a client that proposes whenever it is asked to
proposeLeadershipUnconditionally(self, members) == self \in members

\* proposeLeadership(): the client proposes when it is the candidate
proposeLeadership(self, members) == getLeaderCandidate(members) = self

\* a runtime that analyses the tasks whoever the leader is
runTaskAnalyzerOnEveryClient(self, leader) == self # NoClient

\* runTaskAnalyzer(): the analysis runs on the client that is the leader
runTaskAnalyzer(self, leader) == leader = self

\* analyzeTasks(clientId, members, tasks): the tasks no member runs, split into those
\* the client can run itself and those that need an agent
analyzeTasks(self, members, taskList) ==
    LET unhandled == taskList \ UNION {Serves[m] : m \in members}
    IN [browser |-> unhandled \cap BrowserTasks, robot |-> unhandled \ BrowserTasks]

HelpMessage(taskList) == [tasks |-> taskList]

\* the help runTaskAnalyzer asks for: a localHelp event when there are tasks for this
\* browser, a RemoteHelp message when there are tasks for agents
HelpRequests(helpTasks) ==
    [localHelp |-> IF Cardinality(helpTasks.browser) > 0
                   THEN << HelpMessage(helpTasks.browser) >> ELSE << >>,
     remoteHelp |-> IF Cardinality(helpTasks.robot) > 0
                    THEN << HelpMessage(helpTasks.robot) >> ELSE << >>]

NoHelpRequests == [localHelp |-> << >>, remoteHelp |-> << >>]

\* the tasks of the help messages
RequestedTasks(messages) == UNION {messages[i].tasks : i \in 1..Len(messages)}

\* what the LeaderElector of a client emits for a quorum event, given the leader the
\* client knew before the event
ElectorEvent(e, leader) ==
    IF e.type = "approve" THEN "newLeader"
    ELSE IF e.type = "leave" THEN (IF e.client = leader THEN "leaderLeft" ELSE "memberLeft")
    ELSE "addMember"

\* handlers that answer the leader's departure with a task analysis
LeaderElectionHandlerAnalysing(event) ==
    IF event \in {"newLeader", "memberLeft", "leaderLeft"} THEN "runTaskAnalyzer"
    ELSE IF event = "connected" THEN "proposeLeadership"
    ELSE "none"

\* initLeaderElection(): what the runtime calls when it connects and for each event of
\* its LeaderElector
LeaderElectionHandler(event) ==
    IF event \in {"connected", "leaderLeft"} THEN "proposeLeadership"
    ELSE IF event \in {"newLeader", "memberLeft"} THEN "runTaskAnalyzer"
    ELSE "none"

\* a quorum that accepts every proposal
AcceptsAlways(events) == Len(events) >= 0

\* the quorum accepts a proposal for a slot that is free: at most one proposal is
\* accepted until the leader leaves
Accepts(events) == LeaderAt(events, Len(events)) = NoClient

\* a client connects: its join is sequenced, and the client has the quorum up to it
QuorumJoin(c) ==
    /\ ~Sequenced(JoinEvent(c))
    /\ Len(log) < MaxLog
    /\ log' = Append(log, JoinEvent(c))
    /\ pos' = [pos EXCEPT ![c] = Len(log)]
    /\ UNCHANGED << proposals, handled >>
    /\ UNCHANGED runtimeVars
    /\ UNCHANGED contextVars
    /\ UNCHANGED toolVars

\* a client disconnects: its leave is sequenced and what it proposed is dropped
QuorumLeave(c) ==
    /\ c \in ConnectedClients
    /\ Len(log) < MaxLog
    /\ log' = Append(log, LeaveEvent(c))
    /\ proposals' = proposals \ {c}
    /\ UNCHANGED << pos, handled >>
    /\ UNCHANGED runtimeVars
    /\ UNCHANGED contextVars
    /\ UNCHANGED toolVars

\* the quorum decides the proposal of a client
QuorumDecide(c) ==
    /\ c \in proposals
    /\ proposals' = proposals \ {c}
    /\ IF Accepts(log)
       THEN /\ Len(log) < MaxLog
            /\ log' = Append(log, ApproveEvent(c))
       ELSE UNCHANGED log
    /\ UNCHANGED << pos, handled >>
    /\ UNCHANGED runtimeVars
    /\ UNCHANGED contextVars
    /\ UNCHANGED toolVars

\* a connected client processes the next quorum event: its own join starts the leader
\* election, later events reach the handlers initLeaderElection registered
ClientProcess(c) ==
    /\ c \in ConnectedClients
    /\ pos[c] < Len(log)
    /\ LET n == pos[c] + 1
           e == log[n]
           event == IF e = JoinEvent(c) THEN "connected"
                    ELSE ElectorEvent(e, LeaderAt(log, pos[c]))
           call == LeaderElectionHandler(event)
           members == MembersAt(log, n)
           proposes == call = "proposeLeadership" /\ proposeLeadership(c, members)
           analyses == call = "runTaskAnalyzer" /\ runTaskAnalyzer(c, LeaderAt(log, n))
           help == IF analyses THEN HelpRequests(analyzeTasks(c, members, Tasks))
                   ELSE NoHelpRequests
       IN /\ pos' = [pos EXCEPT ![c] = n]
          /\ handled' = [handled EXCEPT ![c] =
                            [index |-> n, event |-> event,
                             candidate |-> IF call = "proposeLeadership"
                                           THEN getLeaderCandidate(members) ELSE NoClient,
                             proposed |-> proposes, analysed |-> analyses,
                             localHelp |-> help.localHelp,
                             remoteHelp |-> help.remoteHelp,
                             requested |-> handled[c].requested
                                 \cup RequestedTasks(handled[c].localHelp)
                                 \cup RequestedTasks(handled[c].remoteHelp)]]
          /\ proposals' = IF proposes THEN proposals \cup {c} ELSE proposals
    /\ UNCHANGED log
    /\ UNCHANGED runtimeVars
    /\ UNCHANGED contextVars
    /\ UNCHANGED toolVars

\* ------------------------------------------------------------------ component contexts
\* A component context resolves the package path of a channel in the registries of the
\* container and writes the path into the channel's attributes blob.
Undefined == "undefined"

currentSnapshotFormatVersion == "0.1"

\* the ids of the component contexts
ComponentIds == {"Test1", "Test2"}

\* the package paths local contexts are made with
PackagePaths ==
    {<< >>, << "Foo" >>, << "Comp" >>, << "Comp", "Sub" >>, << "Foo", "Sub" >>,
     << "Comp", "Sub", "Leaf" >>}

\* the registries of the container runtime: one that has a plain factory for every
\* name, one whose entry "Comp" is a sub-registry that holds "Sub", and one whose every
\* entry is a factory and a registry at once
RootRegistries == {"flat", "nested", "recursive"}

FactoryEntry == [factory |-> TRUE, registry |-> "none"]

NoRegistryEntry == [factory |-> FALSE, registry |-> "none"]

\* registry.get(pkg)
RegistryGet(registry, pkg) ==
    CASE registry = "flat" -> FactoryEntry
      [] registry = "recursive" -> [factory |-> TRUE, registry |-> "recursive"]
      [] registry = "nested" ->
            IF pkg = "Comp" THEN [factory |-> TRUE, registry |-> "inner"]
            ELSE IF pkg = "Foo" THEN FactoryEntry
            ELSE NoRegistryEntry
      [] registry = "inner" -> IF pkg = "Sub" THEN FactoryEntry ELSE NoRegistryEntry
      [] OTHER -> NoRegistryEntry

\* a resolution that looks every element of the path up in the registry of the container
RECURSIVE factoryFromPackagePathInRoot(_, _, _)
factoryFromPackagePathInRoot(registry, packages, entry) ==
    IF packages = << >>
    THEN (IF entry.factory THEN "none" ELSE "UnresolvedTypeError")
    ELSE IF RegistryGet(registry, Head(packages)) = NoRegistryEntry
    THEN "UnresolvedTypeError"
    ELSE factoryFromPackagePathInRoot(registry, Tail(packages),
                                      RegistryGet(registry, Head(packages)))

\* the resolution of a package path: one registry level per element; an element after
\* the first needs the element before it to be a sub-registry. The result is the error
\* of the resolution.
RECURSIVE factoryFromPackagePath(_, _, _)
factoryFromPackagePath(registry, packages, entry) ==
    IF packages = << >>
    THEN (IF entry.factory THEN "none" ELSE "UnresolvedTypeError")
    ELSE IF registry = "none"
    THEN "MalformedPackagePathError"
    ELSE IF RegistryGet(registry, Head(packages)) = NoRegistryEntry
    THEN "UnresolvedTypeError"
    ELSE factoryFromPackagePath(RegistryGet(registry, Head(packages)).registry,
                                Tail(packages), RegistryGet(registry, Head(packages)))

\* JSON.stringify of an array of identifiers
RECURSIVE JSONStringifyItems(_)
JSONStringifyItems(items) ==
    IF items = << >> THEN ""
    ELSE IF Len(items) = 1 THEN "\"" \o Head(items) \o "\""
    ELSE "\"" \o Head(items) \o "\"," \o JSONStringifyItems(Tail(items))

JSONStringifyArray(items) == "[" \o JSONStringifyItems(items) \o "]"

\* the package paths a pkg text can stand for
KnownPaths == PackagePaths \cup {<< "Sub" >>, << "Leaf" >>}

\* JSON.parse of the text of an array of identifiers
JSONParseArray(text) ==
    IF \E items \in KnownPaths : JSONStringifyArray(items) = text
    THEN CHOOSE items \in KnownPaths : JSONStringifyArray(items) = text
    ELSE << "SyntaxError" >>

\* JSON.stringify of IComponentAttributes: a member that is undefined is left out
StringifyComponentAttributes(attributes) ==
    << << "pkg", attributes.pkg >> >>
        \o (IF attributes.snapshotFormatVersion = Undefined THEN << >>
            ELSE << << "snapshotFormatVersion", attributes.snapshotFormatVersion >> >>)

\* the value of a member of a JSON object, undefined when the object has no such member
ReadMember(text, name) ==
    IF \E i \in 1..Len(text) : text[i][1] = name
    THEN text[CHOOSE i \in 1..Len(text) : text[i][1] = name][2]
    ELSE Undefined

\* readAndParse of the attributes blob
ParseComponentAttributes(text) ==
    [pkg |-> ReadMember(text, "pkg"),
     snapshotFormatVersion |-> ReadMember(text, "snapshotFormatVersion")]

\* a load that takes the stored package value for the path whatever the version
PackageFromSnapshotUnparsed(attributes) == << attributes.pkg >>

\* the package path of a stored attributes blob: a blob without version holds a single
\* identifier, a blob of the current version the JSON text of the path
PackageFromSnapshot(attributes) ==
    IF attributes.snapshotFormatVersion = Undefined THEN << attributes.pkg >>
    ELSE JSONParseArray(attributes.pkg)

\* an attributes blob that names the type of the channel only
CreateAttributesBlobOfType(pkg) ==
    StringifyComponentAttributes(
        [pkg |-> JSONStringifyArray(<< pkg[Len(pkg)] >>),
         snapshotFormatVersion |-> currentSnapshotFormatVersion])

\* the attributes blob a context writes into the snapshot of its channel
CreateAttributesBlob(pkg) ==
    StringifyComponentAttributes(
        [pkg |-> JSONStringifyArray(pkg),
         snapshotFormatVersion |-> currentSnapshotFormatVersion])

\* the attributes blobs remoted contexts are loaded from
StoredAttributes ==
    {[pkg |-> JSONStringifyArray(p), snapshotFormatVersion |-> currentSnapshotFormatVersion] :
        p \in PackagePaths \ {<< >>}}
    \cup {[pkg |-> name, snapshotFormatVersion |-> Undefined] : name \in {"Foo", "Comp", "Sub"}}

\* new LocalComponentContext(id, pkg, runtime, ...): an empty package path is refused
LocalComponentContext(id, pkg, registry) ==
    /\ componentContext.kind = "none"
    /\ componentContext' =
           [NoComponentContext EXCEPT !.kind = "local", !.id = id, !.pkg = pkg,
                                      !.registry = registry,
                                      !.pc = IF pkg = << >> THEN "failed" ELSE "new",
                                      !.error = IF pkg = << >> THEN "EmptyPackagePathError"
                                                ELSE "none"]
    /\ UNCHANGED runtimeVars
    /\ UNCHANGED electionVars
    /\ UNCHANGED toolVars

\* new RemotedComponentContext(id, snapshotTree, runtime, storage, ...)
RemotedComponentContext(id, attributes, registry) ==
    /\ componentContext.kind = "none"
    /\ componentContext' =
           [NoComponentContext EXCEPT !.kind = "remote", !.id = id, !.registry = registry,
                                      !.blob = StringifyComponentAttributes(attributes),
                                      !.pc = "new"]
    /\ UNCHANGED runtimeVars
    /\ UNCHANGED electionVars
    /\ UNCHANGED toolVars

\* realize(): a remoted context reads its package path from the attributes blob; the
\* path is resolved in the registries, and the factory makes the channel
realize ==
    /\ componentContext.pc = "new"
    /\ LET pkg == IF componentContext.kind = "remote"
                  THEN PackageFromSnapshot(ParseComponentAttributes(componentContext.blob))
                  ELSE componentContext.pkg
           error == factoryFromPackagePath(componentContext.registry, pkg, NoRegistryEntry)
       IN componentContext' =
              [componentContext EXCEPT !.pkg = pkg, !.error = error,
                                       !.pc = IF error = "none" THEN "realized"
                                              ELSE "failed"]
    /\ UNCHANGED runtimeVars
    /\ UNCHANGED electionVars
    /\ UNCHANGED toolVars

\* generateAttachMessage() of a local context whose channel exists
generateAttachMessage ==
    /\ componentContext.kind = "local"
    /\ componentContext.pc = "realized"
    /\ componentContext' =
           [componentContext EXCEPT
               !.pc = "attached",
               !.attachMessage =
                   [type |-> componentContext.pkg[Len(componentContext.pkg)],
                    snapshot |-> CreateAttributesBlob(componentContext.pkg)]]
    /\ UNCHANGED runtimeVars
    /\ UNCHANGED electionVars
    /\ UNCHANGED toolVars

\* snapshot(fullTree) of a remoted context whose channel exists
snapshotComponent ==
    /\ componentContext.kind = "remote"
    /\ componentContext.pc = "realized"
    /\ componentContext' =
           [componentContext EXCEPT
               !.pc = "snapshotted",
               !.snapshot = CreateAttributesBlob(componentContext.pkg)]
    /\ UNCHANGED runtimeVars
    /\ UNCHANGED electionVars
    /\ UNCHANGED toolVars

\* ------------------------------------------------------------------ tryFindDependencyPath
\* A directory is the number of directories between it and the root of the file system;
\* a file system is given by the directories that hold node_modules/<dependency>/
\* package.json and the directories that hold lerna.json.
Directories == 0..2

\* the directory a path of a package directory followed by "/.." segments names: the
\* parent of the root is the root
ResolvedDirectory(packageDir, ups) == IF ups >= packageDir THEN 0 ELSE packageDir - ups

\* the condition of the while loop: neither file exists under testPath
SearchGoesOn(modules, lerna, packageDir, ups) ==
    /\ ResolvedDirectory(packageDir, ups) \notin modules
    /\ ResolvedDirectory(packageDir, ups) \notin lerna

\* tryFindDependencyPath(packageDir, dependencyName) is called: testPath = packageDir
tryFindDependencyPath(packageDir, modules, lerna) ==
    /\ search.pc = "none"
    /\ search' = [pc |-> "loop", packageDir |-> packageDir, modules |-> modules,
                  lerna |-> lerna, ups |-> 0]
    /\ UNCHANGED runtimeVars
    /\ UNCHANGED electionVars
    /\ UNCHANGED contextVars

\* one test of the loop condition: testPath += "/.." while neither file exists, the
\* return of the path under testPath otherwise
SearchStep ==
    /\ search.pc = "loop"
    /\ IF SearchGoesOn(search.modules, search.lerna, search.packageDir, search.ups)
       THEN /\ search.ups < MaxUps
            /\ search' = [search EXCEPT !.ups = @ + 1]
       ELSE search' = [search EXCEPT !.pc = "returned"]
    /\ UNCHANGED runtimeVars
    /\ UNCHANGED electionVars
    /\ UNCHANGED contextVars

\* ------------------------------------------------------------------ specifications
\* LoadFromSnapshot, the channel lifecycle and the ordered stream
Lifecycle ==
    \/ \E id \in Ids : LoadRead(id)
    \/ \E id \in Ids, messages \in Backlogs : LoadFinish(id, messages)
    \/ Start
    \/ \E id \in Ids : getChannel(id)
    \/ \E c \in Creations : createChannel(c[1], c[2])
    \/ \E o \in 1..MaxObjects : attachChannel(o)
    \/ \E value \in States : changeConnectionState(value, InitialClientId, ChannelOrder, {})
    \/ \E msn \in MinimumSequenceNumbers : DeliverLocal(msn)
    \/ \E id \in Ids : DeliverRemoteOperation(id)
    \/ \E a \in RemoteAttaches, snapshot \in RemoteSnapshots,
          msn \in MinimumSequenceNumbers :
             prepareAttach(AttachMessage(a[1], snapshot, a[2]), msn)
    \/ processAttachRemote

\* the lifecycle with stop() and updateMinSequenceNumber; channels make no edits
Next ==
    \/ Lifecycle
    \/ stop
    \/ \E msn \in UpdateSequenceNumbers : updateMinSequenceNumber(msn)

Spec == Init /\ [][Next]_vars

\* the lifecycle with channels that edit their state and submit operations
NextOps ==
    \/ Lifecycle
    \/ \E o \in 1..MaxObjects : LocalOperation(o)

SpecOps == Init /\ [][NextOps]_vars

\* loading, creation, attachment and remote attaches on a stream whose minimum sequence
\* number advances
NextMsn ==
    \/ \E id \in Ids : LoadRead(id)
    \/ \E id \in Ids, messages \in Backlogs : LoadFinish(id, messages)
    \/ Start
    \/ \E c \in Creations : createChannel(c[1], c[2])
    \/ \E o \in 1..MaxObjects : attachChannel(o)
    \/ \E msn \in MinimumSequenceNumbers : DeliverLocal(msn)
    \/ \E a \in RemoteAttaches, snapshot \in RemoteSnapshots,
          msn \in MinimumSequenceNumbers :
             prepareAttach(AttachMessage(a[1], snapshot, a[2]), msn)
    \/ processAttachRemote
    \/ \E msn \in AdvancingSequenceNumbers : updateMinSequenceNumber(msn)

SpecMsn == Init /\ [][NextMsn]_vars

\* the calls of the host: channels are created and attached while the connection comes
\* and goes, and channels submit operations again when it is back
InitHost ==
    /\ Init
    /\ \A id \in Ids : loadPc[id] = "none"

NextHost ==
    \/ Start
    \/ \E id \in Ids : getChannel(id)
    \/ \E c \in Creations \cup UnresolvedCreations : createChannel(c[1], c[2])
    \/ \E o \in 1..MaxObjects : attachChannel(o)
    \/ \E value \in States, id \in ClientIds, order \in ChannelOrders,
          resending \in SUBSET Ids :
             changeConnectionState(value, id, order, resending)
    \/ \E msn \in MinimumSequenceNumbers : DeliverLocal(msn)

SpecHost == InitHost /\ [][NextHost]_vars

\* the task registration of a client of any type
InitTasks ==
    /\ \E type \in ClientTypes : Constructed(type)
    /\ \A id \in Ids : loadPc[id] = "none"

NextTasks ==
    \/ Start
    \/ \E c \in Creations : createChannel(c[1], c[2])
    \/ \E o \in 1..MaxObjects : attachChannel(o)
    \/ \E value \in States, id \in ClientIds :
          changeConnectionState(value, id, ChannelOrder, {})
    \/ registerTasks(Tasks)
    \/ stop

SpecTasks == InitTasks /\ [][NextTasks]_vars

\* the component contexts of an idle container
InitContexts ==
    /\ Init
    /\ connectionState = "Connected"
    /\ \A id \in Ids : loadPc[id] = "none"

NextContexts ==
    \/ \E id \in ComponentIds, pkg \in PackagePaths, registry \in RootRegistries :
          LocalComponentContext(id, pkg, registry)
    \/ \E id \in ComponentIds, attributes \in StoredAttributes,
          registry \in RootRegistries :
             RemotedComponentContext(id, attributes, registry)
    \/ realize
    \/ generateAttachMessage
    \/ snapshotComponent

SpecContexts == InitContexts /\ [][NextContexts]_vars

\* the search for the directory of a dependency, with the loop scheduled fairly
NextSearch ==
    \/ \E packageDir \in Directories, modules \in SUBSET Directories,
          lerna \in SUBSET Directories :
             tryFindDependencyPath(packageDir, modules, lerna)
    \/ SearchStep

SpecSearch == InitContexts /\ [][NextSearch]_vars /\ WF_vars(SearchStep)

\* the clients of one document: an idle container, its quorum and the leader election
InitElection ==
    /\ Init
    /\ connectionState = "Connected"
    /\ \A id \in Ids : loadPc[id] = "none"

NextElection ==
    \/ \E c \in Clients : QuorumJoin(c)
    \/ \E c \in Clients : QuorumLeave(c)
    \/ \E c \in Clients : QuorumDecide(c)
    \/ \E c \in Clients : ClientProcess(c)

SpecElection == InitElection /\ [][NextElection]_vars

\* the leader election under fair scheduling: a connected client gets to process the
\* quorum events, and the quorum gets to decide a proposal; clients join and leave as
\* they please
FairElection ==
    \A c \in Clients : WF_vars(ClientProcess(c)) /\ WF_vars(QuorumDecide(c))

SpecElectionFair == InitElection /\ [][NextElection]_vars /\ FairElection

\* ------------------------------------------------------------------ properties
Registered(id) == channels[id] # NoEntry

\* the channel map holds the object o under the object's id
RegisteredObject(o) == o \in 1..Len(objects) /\ channels[objects[o].id].object = o

\* the lifecycle states of a registered channel
Unattached(id) ==
    /\ channels[id].connection = Null
    /\ ~PendingHas(pendingAttach, id)

PendingAttach(id) ==
    /\ channels[id].connection # Null
    /\ ~baseMappingIsSet(connections[channels[id].connection])
    /\ PendingHas(pendingAttach, id)

Attached(id) ==
    /\ channels[id].connection # Null
    /\ baseMappingIsSet(connections[channels[id].connection])
    /\ ~PendingHas(pendingAttach, id)

\* C1: the channel map holds under a registered id the one object that was registered
\* first, which is the object the promise of getChannel(id) is resolved with.
C1_OneChannelPerId ==
    \A id \in Ids :
        Registered(id) =>
            /\ channelsDeferred[id].resolved
            /\ channelsDeferred[id].value = channels[id].object

\* C2: every registered channel is in exactly one of the lifecycle states Unattached,
\* PendingAttach and Attached; no other combination of connection, base mapping and
\* pending-attach membership is reachable.
C2_OneLifecycleState ==
    \A id \in Ids :
        Registered(id) => (Unattached(id) \/ PendingAttach(id) \/ Attached(id))

\* a registered channel that was never attached, or was attached and is not
\* acknowledged yet
Unacknowledged(id) == Registered(id) /\ (Unattached(id) \/ PendingAttach(id))

\* the entries hold no unacknowledged channel, and no locally created channel that has
\* no services or whose connection has no base mapping
WithoutUnacknowledged(entries) ==
    /\ \A id \in Ids : Unacknowledged(id) => \A e \in entries : e.path # id
    /\ \A e \in entries :
          objects[e.object].origin = "local" =>
              /\ objects[e.object].services # Null
              /\ connections[objects[e.object].services].baseSet

\* C3: the entries of a snapshot taken in any state, and the entries stop() returned,
\* hold no locally created channel that was never attached or whose attach message is
\* not acknowledged yet.
C3_UnacknowledgedChannelsAbsent ==
    /\ WithoutUnacknowledged(snapshotInternal(channels, objects, connections).entries)
    /\ WithoutUnacknowledged(stopResult.entries)

\* C3 witness: stop() returned its entries, among them an attached channel, while one
\* registered channel was attached and not acknowledged
C3_Witness ==
    /\ closed
    /\ stopResult.returned
    /\ stopResult.entries # {}
    /\ \E id \in Ids :
          /\ Registered(id)
          /\ PendingAttach(id)
          /\ objects[channels[id].object].origin = "local"
          /\ \A e \in stopResult.entries : e.path # id

\* a step that delivers the local attach message at the head of the stream to an open
\* runtime in which the message's id is pending and registered
LocalAttachStep ==
    /\ started
    /\ ~closed
    /\ context = NoContext
    /\ inflight # << >>
    /\ Head(inflight).type = "Attach"
    /\ PendingHas(pendingAttach, Head(inflight).contents.id)
    /\ Registered(Head(inflight).contents.id)
    /\ \E msn \in MinimumSequenceNumbers : DeliverLocal(msn)

\* C4: processing a local attach message removes the id from the pending-attach map and
\* sets the base mapping of the channel's connection to (0, minimumSequenceNumber); the
\* channel map, the channel objects, every other connection and every other pending
\* entry are unchanged.
C4_LocalAttachFrame ==
    [][LocalAttachStep =>
          LET id == Head(inflight).contents.id
              c == channels[id].connection
          IN /\ last'.err = "none"
             /\ pendingAttach' = PendingDelete(pendingAttach, id)
             /\ c # Null
             /\ connections'[c].baseSet
             /\ connections'[c].baseLocal = 0
             /\ connections'[c].baseDoc = last'.msn
             /\ \A d \in 1..Len(connections) : d # c => connections'[d] = connections[d]
             /\ UNCHANGED << channels, objects, channelsDeferred >>]_vars

\* a step in which an open runtime attaches the object the channel map holds under the
\* object's id
AttachStep(o) ==
    /\ ~closed
    /\ RegisteredObject(o)
    /\ attachChannel(o)

\* a step in which a locally created channel that is registered and has its services
\* submits an operation
OperationStep(o) ==
    /\ RegisteredObject(o)
    /\ objects[o].origin = "local"
    /\ ~isLocal(objects[o])
    /\ LocalOperation(o)

\* an Attach message for id is in the queue
AttachInFlight(queue, id) ==
    \E i \in 1..Len(queue) : queue[i].type = "Attach" /\ queue[i].contents.id = id

\* C5: attachChannel on a registered channel records the message {id, type, snapshot}
\* in the pending-attach map, passes exactly that one Attach message to submitFn and
\* gives the channel an unmapped delta connection and a storage service, in the channel
\* map entry and in the channel; an operation the channel submits afterwards is passed
\* to submitFn as one Operation addressed to the channel's id, and it is queued behind
\* the channel's Attach message unless that message was acknowledged already.
C5_AttachThenOperate ==
    [][\A o \in 1..MaxObjects :
          /\ AttachStep(o) =>
                LET id == objects[o].id
                    message == [id |-> id, snapshot |-> objects[o].content,
                                type |-> objects[o].type]
                    sent == [type |-> "Attach", contents |-> message, resent |-> FALSE]
                    c == channels'[id].connection
                IN /\ last'.err = "none"
                   /\ last'.sent = << sent >>
                   /\ PendingHas(pendingAttach', id)
                   /\ PendingGet(pendingAttach', id) = message
                   /\ inflight' = IF connectionState = "Connected"
                                  THEN Append(inflight, sent) ELSE inflight
                   /\ channels'[id].object = o
                   /\ c # Null
                   /\ connections'[c].id = id
                   /\ connections'[c].state = connectionState
                   /\ ~connections'[c].baseSet
                   /\ channels'[id].storage.kind = "external"
                   /\ objects'[o].services = c
          /\ OperationStep(o) =>
                LET id == objects[o].id
                    sent == [type |-> "Operation", contents |-> [address |-> id],
                             resent |-> FALSE]
                    c == channels[id].connection
                IN /\ last'.err = "none"
                   /\ last'.sent = << sent >>
                   /\ inflight' = IF connectionState = "Connected"
                                  THEN Append(inflight, sent) ELSE inflight
                   /\ c = objects[o].services
                   /\ \/ baseMappingIsSet(connections[c])
                      \/ /\ PendingHas(pendingAttach, id)
                         /\ connectionState = "Connected" => AttachInFlight(inflight, id)]_vars

\* C5 witness: a locally created channel that is attached and not acknowledged has
\* submitted an operation, which is queued behind the channel's Attach message
C5_Witness ==
    /\ last.op = "submit"
    /\ Len(inflight) = 2
    /\ inflight[1].type = "Attach"
    /\ inflight[2].type = "Operation"
    /\ inflight[2].contents.address = inflight[1].contents.id
    /\ PendingAttach(inflight[1].contents.id)
    /\ objects[channels[inflight[1].contents.id].object].origin = "local"

\* C6: a change to Connected passes every pending attach message to submitFn again, in
\* order and with the id, type and snapshot the pending-attach map holds, which are
\* those attachChannel submitted; no change of the connection state changes the
\* pending-attach map, the channel map or the channel objects.
C6_ResubmitOnReconnect ==
    [][/\ (started /\ ~closed /\ connectionState # connectionState') =>
             /\ UNCHANGED << pendingAttach, channels, objects, channelsDeferred >>
             /\ Len(connections') = Len(connections)
             /\ connectionState' = "Connected" =>
                   /\ Len(last'.sent) = Len(pendingAttach)
                   /\ \A i \in 1..Len(pendingAttach) :
                         /\ last'.sent[i].type = "Attach"
                         /\ last'.sent[i].contents = pendingAttach[i]
                   /\ Len(inflight') = Len(inflight) + Len(pendingAttach)
                   /\ \A i \in 1..Len(pendingAttach) :
                         inflight'[Len(inflight) + i].contents = pendingAttach[i]
       /\ \A id \in Ids :
             (PendingHas(pendingAttach, id) /\ PendingHas(pendingAttach', id)
                 /\ PendingGet(pendingAttach', id) # PendingGet(pendingAttach, id)) =>
                     /\ last'.op = "attachChannel"
                     /\ last'.sent = << AttachOp(PendingGet(pendingAttach', id)) >>]_vars

\* C6 witness: the runtime lost its connection with an Attach message in flight,
\* reconnected and resubmitted the message of that channel, which has changed since it
\* was attached
C6_Witness ==
    /\ connectionState = "Connected"
    /\ last.op = "changeConnectionState"
    /\ last.sent # << >>
    /\ \E i \in 1..Len(last.sent) :
          LET m == last.sent[i].contents
          IN /\ PendingAttach(m.id)
             /\ PendingGet(pendingAttach, m.id) = m
             /\ objects[channels[m.id].object].content # m.snapshot
             /\ \E j \in 1..Len(inflight) : inflight[j] = AttachOp(m)

\* C7: every delivery of a local attach message succeeds, the delivery of a message
\* that was resubmitted on reconnection included, and leaves the channel Attached.
C7_DuplicateAttachDelivery ==
    (/\ last.op = "processAttach(local)"
     /\ last.message.resent
     /\ C1_OneChannelPerId) =>
        /\ last.err = "none"
        /\ Attached(last.message.contents.id)

\* C8: once the runtime is closed every call of a public operation fails with the
\* closed-runtime error; the last call of a closed runtime is the stop() that closed it
\* or a call that failed so.
C8_ClosedIsTerminal ==
    closed => (last.op = "stop" /\ last.err # "closed") \/ last.err = "closed"

\* C9: the deferred of an id is resolved exactly when the id is registered, whether or
\* not getChannel created it before; in the step that registers the id it is resolved
\* with the object registered, and a resolved deferred never changes.
C9_DeferredResolvesWhenKnown ==
    [][\A id \in Ids :
          /\ Registered(id)' <=> channelsDeferred'[id].resolved
          /\ (~Registered(id) /\ Registered(id)') =>
                channelsDeferred'[id].value = channels'[id].object
          /\ channelsDeferred[id].resolved => channelsDeferred'[id] = channelsDeferred[id]
          /\ channelsDeferred[id].exists => channelsDeferred'[id].exists]_vars

\* C9 witness: a remote attach has resolved the deferred of its id with the channel it
\* registered, while the deferred getChannel created for the other id is unresolved
C9_Witness ==
    /\ last.op = "processAttach(remote)"
    /\ \E id \in Ids :
          /\ id = last.message.contents.id
          /\ channelsDeferred[id].resolved
          /\ channelsDeferred[id].value = channels[id].object
          /\ objects[channels[id].object].origin = "remote"
    /\ \E id \in Ids :
          /\ ~Registered(id)
          /\ channelsDeferred[id].exists
          /\ ~channelsDeferred[id].resolved

\* C10: after processAttach of a remote attach message the channel of the message is
\* registered in the Attached state: built from the snapshot in the message behind a
\* storage service that holds only that snapshot, with a connection whose base mapping
\* is (0, minimumSequenceNumber), and its id not in the pending-attach map.
C10_RemoteAttachRegistersAttached ==
    (last.op = "processAttach(remote)" /\ last.err = "none") =>
        LET id == last.message.contents.id
        IN /\ Registered(id)
           /\ channels[id].storage = LocalChannelStorageService(last.message.contents.snapshot)
           /\ connections[channels[id].connection].baseLocal = 0
           /\ connections[channels[id].connection].baseDoc = last.msn
           /\ Attached(id)

\* the load of the snapshot channel id has not completed
Loading(id) == loadPc[id] \in {"read", "load", "failed"}

\* the backlog as a channel loaded from a snapshot must receive it: the messages in
\* stream order, each with its sequence number counted from the mapping point of the
\* load and no lower than the sequence number of the snapshot
ReplayedBacklog(messages) ==
    [i \in 1..Len(messages) |->
        [sequenceNumber |->
            IF messages[i].sequenceNumber > LoadMinimumSequenceNumber
            THEN messages[i].sequenceNumber - LoadMinimumSequenceNumber ELSE 0,
         contents |-> messages[i].contents]]

\* C11: a channel of the snapshot is loaded with its backlog translated into the
\* channel's sequence space in stream order, and it is registered and its getChannel
\* promise resolved in the step that completes that load and not before; while a channel
\* is loading its promise is pending, and the runtime is started only when every
\* channel of the snapshot has been loaded.
C11_LoadReplaysBacklogBeforeExposing ==
    /\ [](\A id \in Ids :
            /\ Loading(id) =>
                  /\ ~Registered(id)
                  /\ channelsDeferred[id].exists
                  /\ ~channelsDeferred[id].resolved
            /\ started => loadPc[id] \in {"none", "done"})
    /\ [][\A id \in Ids, messages \in Backlogs :
            (LoadFinish(id, messages) /\ loadPc'[id] = "done") =>
                /\ Registered(id)'
                /\ objects'[channels'[id].object].messages = ReplayedBacklog(messages)
                /\ objects'[channels'[id].object].origin = "snapshot"
                /\ channelsDeferred'[id].resolved
                /\ channelsDeferred'[id].value = channels'[id].object]_vars

\* C11 witness: the runtime has started with a channel loaded from the snapshot that
\* received a backlog of two messages, the first from before the mapping point
C11_Witness ==
    /\ started
    /\ \E id \in Ids :
          /\ loadPc[id] = "done"
          /\ Registered(id)
          /\ channelsDeferred[id].resolved
          /\ Len(objects[channels[id].object].messages) = 2
          /\ objects[channels[id].object].messages[1] = [sequenceNumber |-> 0, contents |-> "x"]
          /\ objects[channels[id].object].messages[2] = [sequenceNumber |-> 2, contents |-> "y"]

\* a step that delivers the operation at the head of the stream to its sender, which
\* routes it to the channel registered under its address
LocalOperationRouted ==
    /\ started
    /\ context = NoContext
    /\ inflight # << >>
    /\ Head(inflight).type = "Operation"
    /\ \E msn \in MinimumSequenceNumbers : DeliverLocal(msn)
    /\ last'.err = "none"

\* C12: with the stream delivering messages in the order they were submitted, an
\* operation a client submitted is routed by process() to a channel whose delta
\* connection has its base mapping set: the channel's attach message was acknowledged
\* before.
C12_BaseMappingBeforeOperation ==
    [][LocalOperationRouted =>
          LET id == Head(inflight).contents.address
          IN /\ channels[id].connection # Null
             /\ baseMappingIsSet(connections[channels[id].connection])
             /\ ~PendingHas(pendingAttach, id)]_vars

\* a step in which the open runtime is handed an operation whose address is not
\* registered: an operation of another client, or the operation at the head of the
\* stream
UnknownAddressStep(address) ==
    /\ ~closed
    /\ ~Registered(address)
    /\ \/ DeliverRemoteOperation(address)
       \/ /\ inflight # << >>
          /\ Head(inflight) = OperationOp(address)
          /\ \E msn \in MinimumSequenceNumbers : DeliverLocal(msn)

\* C13: prepare and process of an operation whose address is not a registered channel
\* id fail with the assertion error; the call reaches no channel and changes neither the
\* channel map nor the pending-attach map.
C13_UnknownAddressFails ==
    [][\A address \in Ids :
          UnknownAddressStep(address) =>
              /\ last'.op = "process"
              /\ last'.err = "assert"
              /\ last'.message = [type |-> "Operation", contents |-> [address |-> address],
                                  resent |-> FALSE]
              /\ last'.sent = << >>
              /\ UNCHANGED << channels, pendingAttach, channelsDeferred, objects,
                              connections, closed >>]_vars

\* C13 witness: with one channel registered, an operation addressed to the id that is
\* not registered has failed
C13_Witness ==
    /\ last.op = "process"
    /\ last.err = "assert"
    /\ ~Registered(last.message.contents.address)
    /\ \E id \in Ids : Registered(id) /\ Attached(id)

\* the channel registered under id is attached and its base mapping is established
Established(id) ==
    /\ Registered(id)
    /\ ~isLocal(objects[channels[id].object])
    /\ channels[id].connection # Null
    /\ baseMappingIsSet(connections[channels[id].connection])

\* the value of a member of a JSON text
JSONMember(text, name) == (CHOOSE i \in 1..Len(text) : text[i][1] = name)

\* C14: a snapshot returns exactly one directory entry, under the channel's id, for every
\* registered channel that is attached with its base mapping established and none for
\* any other channel; the entry holds the channel's own snapshot and one .attributes
\* blob whose JSON text gives the minimum sequence number of the channel's connection
\* and the channel's type.
C14_SnapshotEntries ==
    LET result == snapshotInternal(channels, objects, connections)
    IN /\ result.returned
       /\ \A id \in Ids :
             /\ Established(id) => Cardinality({e \in result.entries : e.path = id}) = 1
             /\ ~Established(id) => {e \in result.entries : e.path = id} = {}
       /\ \A e \in result.entries :
             LET blob == e.value.entries[1]
                 text == blob.value.contents
             IN /\ e.mode = "Directory"
                /\ e.object = channels[e.path].object
                /\ e.value.tree = objects[e.object].content
                /\ Len(e.value.entries) = 1
                /\ blob.path = ".attributes"
                /\ {text[i][1] : i \in 1..Len(text)} = {"sequenceNumber", "type"}
                /\ text[JSONMember(text, "sequenceNumber")][2] =
                       connections[channels[e.path].connection].minimumSequenceNumber
                /\ text[JSONMember(text, "type")][2] = objects[e.object].type

\* C14 witness: a snapshot with the entry of an attached channel whose minimum sequence
\* number has advanced, while another registered channel is attached and not acknowledged
C14_Witness ==
    /\ \E e \in snapshotInternal(channels, objects, connections).entries :
          /\ connections[channels[e.path].connection].minimumSequenceNumber = 2
          /\ connections[channels[e.path].connection].baseLocal = 0
    /\ \E id \in Ids : Registered(id) /\ PendingAttach(id)

\* a step in which updateMinSequenceNumber(msn) returns
UpdateStep(msn) ==
    /\ updateMinSequenceNumber(msn)
    /\ last'.err = "none"

\* C15: updateMinSequenceNumber(msn) changes the minimum sequence number of the
\* connections of channels that are attached with an established base mapping and
\* nothing else: the connection of a channel that is not attached or is pending attach,
\* the channel map, the pending-attach map and every base mapping are unchanged.
C15_UpdateFrame ==
    [][\A msn \in AdvancingSequenceNumbers \cup UpdateSequenceNumbers :
          UpdateStep(msn) =>
              /\ UNCHANGED << channels, pendingAttach, objects, channelsDeferred >>
              /\ Len(connections') = Len(connections)
              /\ \A c \in 1..Len(connections) :
                    /\ connections'[c].baseSet = connections[c].baseSet
                    /\ connections'[c].baseLocal = connections[c].baseLocal
                    /\ connections'[c].baseDoc = connections[c].baseDoc
                    /\ connections'[c].id = connections[c].id
                    /\ connections'[c].state = connections[c].state
                    /\ connections'[c] # connections[c] =>
                          \E id \in Ids : Established(id) /\ channels[id].connection = c
              /\ \A id \in Ids :
                    (Established(id)
                        /\ connections[channels[id].connection].minimumSequenceNumber < msn) =>
                            connections'[channels[id].connection].minimumSequenceNumber = msn]_vars

\* C15 witness: an update has advanced the minimum sequence number of an attached
\* channel while the connection of a channel that is pending attach kept its own
C15_Witness ==
    /\ last.op = "updateMinSequenceNumber"
    /\ \E id \in Ids :
          Established(id) /\ connections[channels[id].connection].minimumSequenceNumber = 2
    /\ \E id \in Ids :
          /\ Registered(id)
          /\ PendingAttach(id)
          /\ connections[channels[id].connection].minimumSequenceNumber = 0

\* the minimum sequence numbers a snapshot records, by path
RecordedSequenceNumbers(chs, objs, conns) ==
    {<< e.path, e.value.entries[1].value.contents >> :
        e \in snapshotInternal(chs, objs, conns).entries}

\* C16: updateMinSequenceNumber(msn) with msn no greater than the minimum sequence
\* number of a connection leaves that connection as it is, no call lowers a minimum
\* sequence number, and a call that is no greater than any of them leaves what a snapshot
\* records unchanged.
C16_UpdateIdempotent ==
    [][\A msn \in AdvancingSequenceNumbers \cup UpdateSequenceNumbers :
          UpdateStep(msn) =>
              /\ \A c \in 1..Len(connections) :
                    /\ connections'[c].minimumSequenceNumber >= connections[c].minimumSequenceNumber
                    /\ msn <= connections[c].minimumSequenceNumber =>
                          connections'[c] = connections[c]
              /\ (\A id \in Ids :
                     Established(id) =>
                         msn <= connections[channels[id].connection].minimumSequenceNumber) =>
                    RecordedSequenceNumbers(channels', objects', connections') =
                        RecordedSequenceNumbers(channels, objects, connections)]_vars

\* C16 witness: an update with 1 has left the minimum sequence number 2 of an attached
\* channel as it was
C16_Witness ==
    /\ last.op = "updateMinSequenceNumber"
    /\ \E id \in Ids :
          Established(id) /\ connections[channels[id].connection].minimumSequenceNumber = 2
    /\ \E id \in Ids :
          Established(id) /\ connections[channels[id].connection].minimumSequenceNumber = 1

\* every load of a snapshot channel has ended, with the channel registered or with a
\* failure
LoadsSettled == \A id \in Ids : loadPc[id] \in {"none", "done", "failed"}

\* C17: a failed load of one snapshot channel is confined to that channel: the channels
\* whose load completed are registered and resolved, and once every load has ended the
\* runtime can start and process the messages addressed to them.
C17_LoadFailureConfined ==
    /\ \A id \in Ids :
          loadPc[id] = "done" => Registered(id) /\ channelsDeferred[id].resolved
    /\ (~started /\ LoadsSettled /\ \E id \in Ids : loadPc[id] = "done") => ENABLED Start

\* the members a client had before the event it handled last
MembersBefore(c) == MembersAt(log, handled[c].index - 1)

\* the client computed a candidate in the handler it ran last
Computed(c) == handled[c].index > 0 /\ handled[c].candidate # NoClient

\* the leader known to the quorum left with the event the client handled last
LeaderLeftAt(c) ==
    /\ handled[c].index > 0
    /\ log[handled[c].index].type = "leave"
    /\ log[handled[c].index].client = LeaderAt(log, handled[c].index - 1)

Handles(c, n) == pos[c] = n - 1 /\ pos'[c] = n /\ log[n] # JoinEvent(c)

\* C20: when the leader leaves, every remaining client computes the candidate, proposes
\* only as the candidate and runs no task analysis; when another member leaves, no
\* client proposes and only the leader runs the task analysis; when a proposal is
\* accepted, the task analysis runs on the new leader only.
C20_HandlersPerEvent ==
    [][\A c \in Clients : \A n \in 1..Len(log) : Handles(c, n) =>
          /\ (log[n].type = "leave" /\ log[n].client = LeaderAt(log, n - 1)) =>
                /\ handled'[c].candidate # NoClient
                /\ \A m \in MembersAt(log, n) : Rank[handled'[c].candidate] <= Rank[m]
                /\ handled'[c].proposed <=> handled'[c].candidate = c
                /\ proposals' = IF handled'[c].candidate = c THEN proposals \cup {c}
                                ELSE proposals
                /\ ~handled'[c].analysed
          /\ (log[n].type = "leave" /\ log[n].client # LeaderAt(log, n - 1)) =>
                /\ ~handled'[c].proposed
                /\ proposals' = proposals
                /\ handled'[c].analysed <=> LeaderAt(log, n) = c
          /\ log[n].type = "approve" =>
                /\ ~handled'[c].proposed
                /\ proposals' = proposals
                /\ handled'[c].analysed <=> log[n].client = c
      ]_vars

\* a client has proposed itself after the leader left, and a client whose proposal was
\* accepted has analysed the tasks
C20_Witness ==
    /\ \E c \in Clients : handled[c].event = "leaderLeft" /\ handled[c].proposed
    /\ \E c \in Clients : handled[c].event = "newLeader" /\ handled[c].analysed

\* the client was the leader after the event it handled last
LeaderAfter(c) == handled[c].index > 0 /\ LeaderAt(log, handled[c].index) = c

\* the tasks no member ran after the event the client handled last
UnhandledAfter(c) == Tasks \ UNION {Serves[m] : m \in MembersAt(log, handled[c].index)}

\* C21: a client that is not the leader asks for no help; the leader, when it analyses
\* the tasks, emits localHelp exactly when a task it can run itself is unhandled and
\* submits RemoteHelp exactly when a task for an agent is unhandled.
C21_OnlyLeaderDispatches ==
    \A c \in Clients :
        /\ ~LeaderAfter(c) => handled[c].localHelp = << >> /\ handled[c].remoteHelp = << >>
        /\ (LeaderAfter(c) /\ handled[c].event \in {"newLeader", "memberLeft"}) =>
              /\ handled[c].localHelp # << >> <=> UnhandledAfter(c) \cap BrowserTasks # {}
              /\ handled[c].remoteHelp # << >> <=> UnhandledAfter(c) \ BrowserTasks # {}
              /\ RequestedTasks(handled[c].localHelp) = UnhandledAfter(c) \cap BrowserTasks
              /\ RequestedTasks(handled[c].remoteHelp) = UnhandledAfter(c) \ BrowserTasks

\* the new leader asked for local help only, and another client saw the same election
C21_Witness ==
    \E c, d \in Clients :
        /\ c # d
        /\ LeaderAfter(c)
        /\ handled[c].event = "newLeader"
        /\ handled[c].localHelp # << >>
        /\ handled[c].remoteHelp = << >>
        /\ handled[d].event = "newLeader"
        /\ handled[d].index = handled[c].index

\* the tasks no member ran before the event the client handled last
UnhandledBefore(c) == Tasks \ UNION {Serves[m] : m \in MembersBefore(c)}

\* C22: an analysis after a membership change that leaves the unhandled tasks as they
\* were asks for no help with a task the leader has asked help for before.
C22_NoSecondRequest ==
    \A c \in Clients :
        (handled[c].analysed /\ UnhandledBefore(c) = UnhandledAfter(c)) =>
            (RequestedTasks(handled[c].localHelp) \cup RequestedTasks(handled[c].remoteHelp))
                \cap handled[c].requested = {}

\* the step is a change of the connection state to Connected
ConnectStep == connectionState' # connectionState /\ connectionState' = "Connected"

\* C23: registerTasks on a connected browser client starts the leader election at once;
\* on a browser client that is not connected the election starts at the next change to
\* Connected, once, for the client id of that change, and no later change starts it
\* again; on a client that is no browser the election never starts.
C23_ElectionStartsOnceConnected ==
    /\ [](clientType # Browser => leaderElections = << >> /\ connectedListeners = 0)
    /\ [][/\ (registerTasks(Tasks) /\ ~closed) =>
                /\ tasks' = Tasks
                /\ (clientType = Browser /\ connectionState = "Connected") =>
                      /\ leaderElections' = Append(leaderElections, clientId)
                      /\ connectedListeners' = connectedListeners
                /\ (clientType = Browser /\ connectionState # "Connected") =>
                      /\ leaderElections' = leaderElections
                      /\ connectedListeners' = connectedListeners + 1
          /\ ConnectStep =>
                /\ connectedListeners' = 0
                /\ Len(leaderElections') = Len(leaderElections) + connectedListeners
                /\ SubSeq(leaderElections', 1, Len(leaderElections)) = leaderElections
                /\ \A i \in (Len(leaderElections) + 1)..Len(leaderElections') :
                      leaderElections'[i] = clientId' /\ clientId' \in ClientIds
          /\ (~registerTasks(Tasks) /\ ~ConnectStep) =>
                UNCHANGED << leaderElections, connectedListeners >>
      ]_vars

\* the tasks were registered while the client was not connected; the election started
\* when it connected as B, and not again when it came back as A
C23_Witness ==
    /\ clientType = Browser
    /\ leaderElections = << "B" >>
    /\ connectedListeners = 0
    /\ connectionState = "Connected"
    /\ clientId = "A"
    /\ last.op = "changeConnectionState"

\* the step changes the connection state of a runtime that is not closed
StateChangeStep == started /\ ~closed /\ connectionState' # connectionState

\* the positions of the effects of the given kind for the given subject
EffectsOf(effects, kind, subject) ==
    {i \in 1..Len(effects) : effects[i].kind = kind /\ effects[i].subject = subject}

\* C27: a change to Connected submits the pending attach messages first, then emits
\* "connected", then tells the delta connections, so that in the stream the Attach
\* messages come before every operation a channel submits again; every change tells
\* every channel that has a delta connection the new state, and no other channel.
C27_ResubmitBeforeNotify ==
    [][StateChangeStep =>
          LET effects == last'.effects
              attaches == IF connectionState' = "Connected" THEN Len(pendingAttach) ELSE 0
          IN /\ \A i \in 1..attaches :
                   /\ effects[i].kind = "submit"
                   /\ effects[i].message.type = "Attach"
                   /\ effects[i].message.contents = pendingAttach[i]
             /\ connectionState' = "Connected" =>
                   /\ Len(effects) > attaches
                   /\ effects[attaches + 1].kind = "emit:connected"
                   /\ effects[attaches + 1].subject = clientId'
             /\ \A i \in 1..Len(effects) :
                   (i > attaches /\ effects[i].kind = "submit") =>
                       /\ effects[i].message.type = "Operation"
                       /\ i > attaches + 1
                       /\ effects[i - 1].kind = "setConnectionState:Connected"
                       /\ effects[i - 1].subject = effects[i].message.contents.address
             /\ \E n \in 0..Len(inflight') :
                   /\ n + Len(last'.sent) = Len(inflight')
                   /\ \A i \in 1..Len(last'.sent) : inflight'[n + i] = last'.sent[i]
                   /\ \A i, j \in 1..Len(last'.sent) :
                         (last'.sent[i].type = "Attach" /\ last'.sent[j].type = "Operation")
                             => i < j
             /\ \A id \in Ids :
                   IF channels[id] # NoEntry /\ channels[id].connection # Null
                   THEN /\ Cardinality(EffectsOf(effects,
                               "setConnectionState:" \o connectionState', id)) = 1
                        /\ connections'[channels[id].connection].state = connectionState'
                   ELSE \A i \in 1..Len(effects) :
                           effects[i].kind \in {"submit", "emit:connected"}
                               \/ effects[i].subject # id
      ]_vars

\* the client is connected again: the pending attach message was submitted, then
\* "connected" was emitted, then the channel was told and submitted its operation again
C27_Witness ==
    /\ last.op = "changeConnectionState"
    /\ connectionState = "Connected"
    /\ Len(last.effects) = 4
    /\ last.effects[1].kind = "submit"
    /\ last.effects[1].message.type = "Attach"
    /\ last.effects[2].kind = "emit:connected"
    /\ last.effects[3].kind = "setConnectionState:Connected"
    /\ last.effects[4].kind = "submit"
    /\ last.effects[4].message.type = "Operation"
    /\ Len(inflight) = 2
    /\ inflight[1].type = "Attach"
    /\ inflight[2].type = "Operation"

\* C28: changeConnectionState with the state the runtime is in changes nothing: nothing
\* is submitted, nothing is emitted, the client id stays and no delta connection is told.
C28_SameStateNoEffect ==
    [][\A value \in States, id \in ClientIds, order \in ChannelOrders,
          resending \in SUBSET Ids :
            (changeConnectionState(value, id, order, resending) /\ ~closed
                /\ value = connectionState) =>
                /\ UNCHANGED << channels, channelsDeferred, closed, pendingAttach,
                                connectionState, objects, connections, inflight, context,
                                loadPc, started, storageReads, stopResult, hostVars >>
                /\ last'.sent = << >>
                /\ last'.effects = << >>
      ]_vars

\* the runtime connected as B, has a pending attach message and a channel with a delta
\* connection, and was told once more that it is connected
C28_Witness ==
    /\ last.op = "changeConnectionState"
    /\ last.err = "none"
    /\ last.effects = << >>
    /\ connectionState = "Connected"
    /\ pendingAttach # << >>
    /\ NotifiedIds(channels) # {}
    /\ clientId = "B"
    /\ Len(inflight) < MaxInflight

\* the types createChannel is called with
CreationTypes == {c[2] : c \in Creations \cup UnresolvedCreations}

\* C29: createChannel with a type that has no module fails with an error to the caller
\* and registers nothing: the channel map, the channel objects and the deferreds stay.
C29_UnresolvedTypeFails ==
    [][\A id \in Ids, type \in CreationTypes :
          (createChannel(id, type) /\ ~closed /\ type \notin Types) =>
              /\ last'.op = "createChannel"
              /\ last'.err \notin {"none", "closed"}
              /\ UNCHANGED << channels, channelsDeferred, objects, connections,
                              pendingAttach, inflight, closed, connectionState >>
      ]_vars

\* getChannel("c1") waits, and a createChannel of "c1" with an unknown type has failed:
\* the promise is not resolved and no channel is registered
C29_Witness ==
    /\ last.op = "createChannel"
    /\ last.err = "TypeError"
    /\ channelsDeferred["c1"].exists
    /\ ~channelsDeferred["c1"].resolved
    /\ channels["c1"] = NoEntry
    /\ channels["c2"] # NoEntry

\* C30: an attachChannel call that fails leaves the runtime as it was: the pending-attach
\* map has no new entry and no Attach message was submitted.
C30_FailedAttachChangesNothing ==
    [][\A o \in 1..MaxObjects :
          (attachChannel(o) /\ ~closed /\ last'.err # "none") =>
              /\ pendingAttach' = pendingAttach
              /\ inflight' = inflight
              /\ last'.sent = << >>
              /\ UNCHANGED << channels, objects, connections >>
      ]_vars

\* realize() of the local context has ended
LocalRealizeEnded ==
    componentContext.kind = "local" /\ componentContext.pc \in {"realized", "failed", "attached"}

\* C24: realize() of a local channel whose package path has more than one element and
\* whose first element is a plain factory in the registry fails with an error and makes
\* no channel.
C24_PathThroughPlainFactoryFails ==
    (/\ LocalRealizeEnded
     /\ Len(componentContext.pkg) > 1
     /\ RegistryGet(componentContext.registry, componentContext.pkg[1]) = FactoryEntry)
        => /\ componentContext.pc = "failed"
           /\ componentContext.error # "none"
           /\ componentContext.attachMessage = NoComponentContext.attachMessage

\* the path Comp, Sub was realized against the registry that has plain factories only
C24_Witness ==
    /\ componentContext.kind = "local"
    /\ componentContext.registry = "flat"
    /\ componentContext.pkg = << "Comp", "Sub" >>
    /\ componentContext.pc = "failed"
    /\ componentContext.error = "MalformedPackagePathError"

\* the registry the resolution is in after the first k elements of the path
RECURSIVE RegistryAfter(_, _, _)
RegistryAfter(registry, pkg, k) ==
    IF k = 0 THEN registry
    ELSE IF RegistryAfter(registry, pkg, k - 1) = "none" THEN "none"
    ELSE RegistryGet(RegistryAfter(registry, pkg, k - 1), pkg[k]).registry

\* the package path resolves: every prefix element is a sub-registry that holds the
\* next element, and the last element is a factory
Resolves(registry, pkg) ==
    /\ pkg # << >>
    /\ \A k \in 1..Len(pkg) :
          /\ RegistryAfter(registry, pkg, k - 1) # "none"
          /\ RegistryGet(RegistryAfter(registry, pkg, k - 1), pkg[k]) # NoRegistryEntry
    /\ RegistryGet(RegistryAfter(registry, pkg, Len(pkg) - 1), pkg[Len(pkg)]).factory

\* C25: a local channel whose package path resolves is realized; its attach message
\* declares the last element of the path as type, and the attributes blob of its
\* snapshot holds the whole path as the JSON text of an array, with
\* snapshotFormatVersion "0.1".
C25_AttachMessageOfPackagePath ==
    /\ (LocalRealizeEnded /\ Resolves(componentContext.registry, componentContext.pkg))
          => componentContext.pc # "failed"
    /\ (componentContext.kind = "local" /\ componentContext.pc = "attached") =>
          LET pkg == componentContext.pkg
              blob == componentContext.attachMessage.snapshot
          IN /\ componentContext.attachMessage.type = pkg[Len(pkg)]
             /\ Len(blob) = 2
             /\ blob[1][1] = "pkg"
             /\ blob[1][2] = JSONStringifyArray(pkg)
             /\ JSONParseArray(blob[1][2]) = pkg
             /\ blob[2] = << "snapshotFormatVersion", "0.1" >>

\* the attach message of the path Comp, Sub, resolved through the sub-registry Comp
C25_Witness ==
    /\ componentContext.kind = "local"
    /\ componentContext.pc = "attached"
    /\ componentContext.registry = "nested"
    /\ componentContext.pkg = << "Comp", "Sub" >>
    /\ componentContext.attachMessage.type = "Sub"
    /\ componentContext.attachMessage.snapshot[1][2] = "[\"Comp\",\"Sub\"]"

\* C26: the snapshot of a channel loaded from an attributes blob holds the attributes in
\* canonical form: a blob with an array pkg and a version comes back with the same pkg
\* and version; a blob with a single identifier and no version comes back with the
\* array of that identifier and version "0.1"; the id and the type stay.
C26_AttributesRoundTrip ==
    (componentContext.kind = "remote" /\ componentContext.pc = "snapshotted") =>
        LET stored == componentContext.blob
            written == componentContext.snapshot
        IN /\ Len(written) = 2
           /\ written[1][1] = "pkg"
           /\ written[2][1] = "snapshotFormatVersion"
           /\ Len(stored) = 2 =>
                 /\ written[1][2] = stored[1][2]
                 /\ written[2][2] = stored[2][2]
                 /\ JSONParseArray(written[1][2])[Len(JSONParseArray(written[1][2]))]
                       = componentContext.pkg[Len(componentContext.pkg)]
           /\ Len(stored) = 1 =>
                 /\ written[1][2] = "[\"" \o stored[1][2] \o "\"]"
                 /\ written[2][2] = "0.1"
                 /\ componentContext.pkg = << stored[1][2] >>
           /\ componentContext.id \in ComponentIds

\* a blob with pkg "Foo" and no version was loaded and written back
C26_Witness ==
    /\ componentContext.kind = "remote"
    /\ componentContext.pc = "snapshotted"
    /\ componentContext.blob = << << "pkg", "Foo" >> >>
    /\ componentContext.snapshot =
           << << "pkg", "[\"Foo\"]" >>, << "snapshotFormatVersion", "0.1" >> >>

\* the last quorum event is the leave of the client that was the leader
LeaderHasLeft ==
    /\ Len(log) > 0
    /\ log[Len(log)].type = "leave"
    /\ log[Len(log)].client = LeaderAt(log, Len(log) - 1)

\* the quorum has a leader
LeaderAccepted == LeaderAt(log, Len(log)) # NoClient

\* a proposal waits for a decision that the bound on the quorum events keeps away
OutOfLog == Len(log) = MaxLog /\ proposals # {}

\* the client is connected and has started its leader election
ElectionStarted(c) == c \in ConnectedClients /\ handled[c].index > 0

\* C31: under fair scheduling, when the leader leaves while a client that has started
\* its leader election is connected, a new leader is accepted in the end, unless that
\* client leaves as well.
C31_LeaderEventuallyAccepted ==
    \A c \in Clients :
        (LeaderHasLeft /\ ElectionStarted(c))
            ~> (LeaderAccepted \/ c \notin ConnectedClients \/ OutOfLog)

\* C32: the search of tryFindDependencyPath ends for every package directory and every
\* file system.
C32_SearchTerminates == (search.pc = "loop") ~> (search.pc = "returned")

====
